---- MODULE Spec2Model ----
(***************************************************************************)
(* Shipping discount engine: TransactionProcessor.process_transaction,     *)
(* DiscountRuleExecutor.execute_rule, the in-memory carrier / transaction  *)
(* repositories, the lock contract and the unit of work.                   *)
(*                                                                         *)
(* Amounts are integers (one unit = the smallest currency step).  Dates    *)
(* are integers YYYYMMDD, whose integer order is the calendar order.       *)
(* An optional value is a sequence of length at most one: <<>> is None.    *)
(***************************************************************************)
EXTENDS Integers, Sequences, FiniteSets, TLC

\* ------------------------------------------------------------------ bounds
MaxCalls == 2
MaxSetEnabled == 1
NumProcs == 2
MaxStubAmount == 2
\* the limiter on its own: records in the history, cap, raw discount
MaxHist == 2
MaxCap == 3
MaxRaw == 3
\* transactions processed one after another over two months
MaxSeqCalls == 3
\* the eligibility variants of the repository: calls, and the N of a rule
MaxRefCalls == 4
MaxN == 2
\* carriers switched off and on between transactions
MaxCarrierCalls == 3
MaxCarrierSets == 2
\* two processors: calls made by both together
MaxTwoCalls == 3
\* rule registration: classes declared under new names
MaxDeclared == 1
\* the formatter: coefficients, fractional digits and positive exponents of
\* its inputs
MaxCoef == 100
MaxPlaces == 5
MaxExp == 3
\* amounts: coefficients of the configured price and cap, calls made
MaxPriceCoef == 3
MaxCapCoef == 3
MaxAmountCalls == 3

Procs == 1..NumProcs

None == <<>>
Some(v) == <<v>>
IsNone(o) == o = <<>>
Val(o) == o[1]

Range(s) == {s[i] : i \in 1..Len(s)}

\* ------------------------------------------------------- request decoding
IsLeap(y) == (y % 4 = 0 /\ y % 100 # 0) \/ y % 400 = 0

DaysInMonth(y, m) ==
    IF m = 2 THEN (IF IsLeap(y) THEN 29 ELSE 28)
    ELSE IF m \in {4, 6, 9, 11} THEN 30 ELSE 31

\* date.fromisoformat: None stands for ValueError
FromIsoformat(d) ==
    IF /\ d[1] \in 1..9999
       /\ d[2] \in 1..12
       /\ d[3] \in 1..DaysInMonth(d[1], d[2])
    THEN Some(d[1] * 10000 + d[2] * 100 + d[3])
    ELSE None

\* StringConstraints(to_upper=True, strip_whitespace=True)
Normalize(s) ==
    CASE s = "a" -> "A"
      [] s = " a" -> "A"
      [] s = "b" -> "B"
      [] s = "s" -> "S"
      [] s = "l" -> "L"
      [] OTHER -> s

MinDate == 20100101

\* ---------------------------------------------------------- configuration
ShippingPlans ==
    << [carrier |-> "A", package_size |-> "S", price |-> 3],
       [carrier |-> "B", package_size |-> "S", price |-> 2],
       [carrier |-> "B", package_size |-> "L", price |-> 4] >>

CarrierStatuses ==
    << [carrier |-> "A", enabled |-> TRUE],
       [carrier |-> "B", enabled |-> TRUE] >>

\* the day before the minimum date, the minimum date, and no date at all
ReqDates == { <<2009, 12, 31>>, <<2010, 1, 1>>, <<2010, 2, 30>> }
ReqCarriers == {"A", "b", "Z"}
ReqSizes == {"S", "L"}
Requests == [date : ReqDates, carrier : ReqCarriers, package_size : ReqSizes]

\* ------------------------------------------------------------ core.helper
\* filter_objects(x, carrier=c)
FilterCarrier(x, c) == SelectSeq(x, LAMBDA e : e.carrier = c)

\* filter_objects(x, package_size=s)
FilterSize(x, s) == SelectSeq(x, LAMBDA e : e.package_size = s)

\* find(x, carrier=c, package_size=s): the first match
Find(x, c, s) == FilterSize(FilterCarrier(x, c), s)[1]

RECURSIVE Concat(_)
Concat(ss) == IF ss = <<>> THEN <<>> ELSE Head(ss) \o Concat(Tail(ss))

\* ------------------------------------------------------- CarrierMemoryRepo
\* a repository that returns the plans of every carrier
get_shipping_plans_unfiltered(statuses) ==
    Concat([i \in 1..Len(statuses) |->
              FilterCarrier(ShippingPlans, statuses[i].carrier)])

get_shipping_plans(statuses) ==
    Concat([i \in 1..Len(statuses) |->
              IF statuses[i].enabled
              THEN FilterCarrier(ShippingPlans, statuses[i].carrier)
              ELSE <<>>])

\* None: no such carrier
is_enabled(statuses, c) ==
    LET st == FilterCarrier(statuses, c)
    IN IF Len(st) = 0 THEN None ELSE Some(st[1].enabled)

\* an update that does not filter by carrier
repo_set_enabled_all(statuses, c, en) ==
    [i \in 1..Len(statuses) |-> [statuses[i] EXCEPT !.enabled = en]]

repo_set_enabled(statuses, c, en) ==
    [i \in 1..Len(statuses) |->
        IF statuses[i].carrier = c
        THEN [statuses[i] EXCEPT !.enabled = en]
        ELSE statuses[i]]

\* ------------------------------------------- request validation (pure part)
\* the checks with the date check moved before the carrier checks
ValidationErrorDateFirst(req, plans, statuses) ==
    LET d == FromIsoformat(req.date)
        c == Normalize(req.carrier)
        s == Normalize(req.package_size)
        en == is_enabled(statuses, c)
    IN IF IsNone(d) THEN "InvalidTransactionRequest"
       ELSE IF Val(d) < MinDate THEN "InvalidTransactionDate"
       ELSE IF IsNone(en) THEN "CarrierDoesNotExist"
       ELSE IF ~Val(en) THEN "CarrierDisabled"
       ELSE IF Len(FilterSize(FilterCarrier(plans, c), s)) = 0
            THEN "InvalidTransactionRequest"
       ELSE ""

\* _validate_and_process_transaction_request: the exception raised ("" when
\* the request is accepted)
ValidationError(req, plans, statuses) ==
    LET d == FromIsoformat(req.date)
        c == Normalize(req.carrier)
        s == Normalize(req.package_size)
        en == is_enabled(statuses, c)
    IN IF IsNone(d) THEN "InvalidTransactionRequest"
       ELSE IF IsNone(en) THEN "CarrierDoesNotExist"
       ELSE IF ~Val(en) THEN "CarrierDisabled"
       ELSE IF Val(d) < MinDate THEN "InvalidTransactionDate"
       ELSE IF Len(FilterSize(FilterCarrier(plans, c), s)) = 0
            THEN "InvalidTransactionRequest"
       ELSE ""

UnprocessedTransaction(req) ==
    [date |-> Val(FromIsoformat(req.date)),
     package_size |-> Normalize(req.package_size),
     carrier |-> Normalize(req.carrier)]

\* ------------------------------------------------------------------ state
VARIABLES carrier_statuses, transactions, rule_set, lock_owner, call,
          active, ncalls, nset, set_error, rule_registry, class_stmt,
          executor, amounts

vars == <<carrier_statuses, transactions, rule_set, lock_owner, call,
          active, ncalls, nset, set_error, rule_registry, class_stmt,
          executor, amounts>>

NoReq == [date |-> <<0, 0, 0>>, carrier |-> "", package_size |-> ""]

\* one process_transaction call of a processor: its position, its locals,
\* and log, the calls it made to the lock, the unit of work and save (a lock
\* call that raised LockNotOwnedException is logged with _not_owned)
IdleCall ==
    [pc |-> "idle", req |-> NoReq, plans |-> <<>>, txn |-> None, price |-> 0,
     rules |-> <<>>, ex |-> <<>>, sel |-> None, log |-> <<>>, err |-> "",
     resp |-> None, warned |-> FALSE]

\* ------------------------------------------------- discount rule definitions
\* Subrule(name, params); the parameters a variant does not use stay at 0 / <<>>
Subrule(name) ==
    [name |-> name, n |-> 0, discount_id |-> 0, attrs |-> <<>>, size |-> 0]

\* "custom" is a registered variant whose behaviour is left open (any
\* subclass of the rule system registers itself under its __rule_name__)
EligibilityRuleNames ==
    {"rule_transaction_attributes", "rule_max_n_times_in_calendar_month",
     "rule_every_nth_transaction", "custom"}
SizeRuleNames ==
    {"rule_discount_size_full_price",
     "rule_match_price_to_lowest_among_shipping_plans", "custom"}
CorrectionRuleNames == {"basic_monthly_discount_size_limiter", "custom"}

DiscountRule(id, size_rule, eligibility_rules, size_correction_rule) ==
    [discount_id |-> id, size_rule |-> size_rule,
     eligibility_rules |-> eligibility_rules,
     size_correction_rule |-> size_correction_rule]

Limiter(cap) ==
    [Subrule("basic_monthly_discount_size_limiter") EXCEPT !.size = cap]

AttributesEqual(attrs) ==
    [Subrule("rule_transaction_attributes") EXCEPT !.attrs = attrs]

\* one discount with two open eligibility rules, an open size rule and an
\* open correction rule
RuleSetExecutor ==
    << DiscountRule(1, Subrule("custom"),
                    Some(<<Subrule("custom"), Subrule("custom")>>),
                    Some(Subrule("custom"))) >>

\* two competing discounts without correction; one declares no eligibility
\* rules, the other an empty list
RuleSetCompeting ==
    << DiscountRule(1, Subrule("custom"), None, None),
       DiscountRule(2, Subrule("custom"), Some(<<>>), None) >>

\* reference variants: full price capped per month, for carrier A only, next
\* to a full-price discount with a smaller cap
RuleSetReference ==
    << DiscountRule(1, Subrule("rule_discount_size_full_price"),
                    Some(<<AttributesEqual(<< <<"carrier", "A">> >>)>>),
                    Some(Limiter(4))),
       DiscountRule(2, Subrule("rule_discount_size_full_price"),
                    None, Some(Limiter(1))) >>

\* a resolvable definition followed by one whose size rule is not registered
RuleSetUnknown ==
    << DiscountRule(1, Subrule("rule_discount_size_full_price"), None, None),
       DiscountRule(2, Subrule("no_such_rule"), None, None) >>

\* a resolvable definition followed by one whose limiter has no valid cap
RuleSetMalformed ==
    << DiscountRule(1, Subrule("rule_discount_size_full_price"), None, None),
       DiscountRule(2, Subrule("rule_discount_size_full_price"), None,
                    Some(Limiter(0))) >>

RuleSets ==
    {RuleSetExecutor, RuleSetCompeting, RuleSetReference, RuleSetUnknown,
     RuleSetMalformed}

\* the positions of a rule in a rule set, and of an eligibility rule in a rule
RuleIndex == UNION {DOMAIN rs : rs \in RuleSets}
EligibilityIndex ==
    UNION {UNION {DOMAIN Val(rs[i].eligibility_rules) :
                    i \in {j \in DOMAIN rs : ~IsNone(rs[j].eligibility_rules)}} :
             rs \in RuleSets}

\* ------------------------------------------- TransactionProcessor._get_rules
\* the registry lookup of a subrule of one kind: FALSE is the KeyError
Registered(names, rule) == rule.name \in names

\* the constructor of a variant called with the definition's parameters
\* (validate_call): FALSE is the ValidationError
Constructible(rule) ==
    CASE rule.name = "basic_monthly_discount_size_limiter" -> rule.size > 0
      [] rule.name = "rule_max_n_times_in_calendar_month" -> rule.n >= 1
      [] rule.name = "rule_every_nth_transaction" -> rule.n >= 1
      [] OTHER -> TRUE

\* the first exception of one turn of the loop, "" when there is none
DefinitionError(d) ==
    LET el == IF IsNone(d.eligibility_rules) THEN <<>>
              ELSE Val(d.eligibility_rules)
        co == IF IsNone(d.size_correction_rule) THEN <<>>
              ELSE d.size_correction_rule
        checks == [i \in 1..Len(el) |-> <<EligibilityRuleNames, el[i]>>]
                  \o [i \in 1..Len(co) |-> <<CorrectionRuleNames, co[i]>>]
                  \o << <<SizeRuleNames, d.size_rule>> >>
        bad == {i \in DOMAIN checks :
                  \/ ~Registered(checks[i][1], checks[i][2])
                  \/ ~Constructible(checks[i][2])}
    IN IF bad = {} THEN ""
       ELSE LET i == CHOOSE k \in bad : \A j \in bad : k <= j
            IN IF ~Registered(checks[i][1], checks[i][2]) THEN "KeyError"
               ELSE "ValidationError"

\* the loop over the discount rules; ie / ic are init_eligibility_rules and
\* init_correction_rule, which the loop assigns only when the definition
\* declares them; ok = FALSE when a lookup or a constructor raised err
RECURSIVE GetRulesFrom(_, _, _, _)
GetRulesFrom(defs, ie, ic, acc) ==
    IF defs = <<>> THEN [ok |-> TRUE, err |-> "", rules |-> acc]
    ELSE LET d == Head(defs)
             ie2 == IF IsNone(d.eligibility_rules) THEN ie
                    ELSE d.eligibility_rules
             ic2 == IF IsNone(d.size_correction_rule) THEN ic
                    ELSE d.size_correction_rule
         IN IF DefinitionError(d) # ""
            THEN [ok |-> FALSE, err |-> DefinitionError(d), rules |-> <<>>]
            ELSE GetRulesFrom(Tail(defs), ie2, ic2,
                     Append(acc,
                        [discount_id |-> d.discount_id,
                         eligibility_rules |-> ie2,
                         size_rule |-> d.size_rule,
                         size_correction_rule |-> ic2]))

\* a loop that skips the definitions it cannot resolve
GetRulesSkipping(defs) ==
    GetRulesFrom(SelectSeq(defs, LAMBDA d : DefinitionError(d) = ""),
                 None, None, <<>>)

GetRules(defs) == GetRulesFrom(defs, None, None, <<>>)

\* ------------------------------------------------- transaction history reads
\* get_calendar_month_range_dates
MonthStart(d) == (d \div 100) * 100 + 1
MonthEnd(d) == (d \div 100) * 100 + DaysInMonth(d \div 10000, (d \div 100) % 100)

\* a filter that drops the start of the range
FilterByDateEndOnly(hist, start, end) ==
    SelectSeq(hist, LAMBDA t : t.date <= end)

\* _filter_transactions_by_date (both ends given)
FilterByDate(hist, start, end) ==
    SelectSeq(hist, LAMBDA t : start <= t.date /\ t.date <= end)

RECURSIVE SumDiscounts(_)
SumDiscounts(hist) ==
    IF hist = <<>> THEN 0
    ELSE (IF IsNone(Head(hist).discount) THEN 0 ELSE Val(Head(hist).discount))
         + SumDiscounts(Tail(hist))

\* TransactionMemoryRepo.get_discount_sum(start=, end=)
get_discount_sum(hist, start, end) == SumDiscounts(FilterByDate(hist, start, end))

\* ----------------------------------------------------------- rule variants
\* getattr(x, name) for the string-valued transaction fields
Attr(x, name) == IF name = "carrier" THEN x.carrier ELSE x.package_size

\* attributes_equal(x, **attrs); "raised" is the TypeError of an empty filter
attributes_equal(x, attrs) ==
    IF Len(attrs) = 0 THEN "raised"
    ELSE IF \A i \in 1..Len(attrs) : Attr(x, attrs[i][1]) = attrs[i][2]
         THEN "true" ELSE "false"

\* filter_objects(hist, **attrs)
FilterAttrs(hist, attrs) ==
    SelectSeq(hist, LAMBDA t :
        \A i \in 1..Len(attrs) : Attr(t, attrs[i][1]) = attrs[i][2])

\* TransactionMemoryRepo.get_transaction_count(transaction_attr=attrs): an
\* empty filter is not applied
CountMatching(hist, attrs) ==
    Len(IF Len(attrs) = 0 THEN hist ELSE FilterAttrs(hist, attrs))

\* get_transaction_count(start=, end=, transaction_attr={"discount_id": id})
CountDiscountId(hist, start, end, id) ==
    Len(FilterByDate(SelectSeq(hist, LAMBDA t : t.discount_id = Some(id)),
                     start, end))

\* an every-Nth rule that counts the transactions already stored only
EveryNthEligibleStoredOnly(rule, txn, hist) ==
    IF Len(rule.attrs) > 0 /\ attributes_equal(txn, rule.attrs) = "false"
    THEN "false"
    ELSE IF CountMatching(hist, rule.attrs) % rule.n = 0
         THEN "true" ELSE "false"

\* RuleEveryNthTransaction.eligible
EveryNthEligible(rule, txn, hist) ==
    IF Len(rule.attrs) > 0 /\ attributes_equal(txn, rule.attrs) = "false"
    THEN "false"
    ELSE IF (CountMatching(hist, rule.attrs) + 1) % rule.n = 0
         THEN "true" ELSE "false"

\* a max-N rule that allows one more: <= in place of <
MaxNEligibleInclusive(rule, txn, hist) ==
    IF CountDiscountId(hist, MonthStart(txn.date), MonthEnd(txn.date),
                       rule.discount_id) <= rule.n
    THEN "true" ELSE "false"

\* RuleMaxNTimesInCalendarMonth.eligible
MaxNEligible(rule, txn, hist) ==
    IF CountDiscountId(hist, MonthStart(txn.date), MonthEnd(txn.date),
                       rule.discount_id) < rule.n
    THEN "true" ELSE "false"

\* the outcomes of rule.eligible for one transaction; a variant other than
\* the three of the repository is left open: eligible, ineligible or an
\* exception
EligibilityOutcomes(rule, txn, hist) ==
    CASE rule.name = "rule_transaction_attributes" ->
            {attributes_equal(txn, rule.attrs)}
      [] rule.name = "rule_every_nth_transaction" ->
            {EveryNthEligible(rule, txn, hist)}
      [] rule.name = "rule_max_n_times_in_calendar_month" ->
            {MaxNEligible(rule, txn, hist)}
      [] OTHER -> {"true", "false", "raised"}

StubAmounts == (0 - 1)..MaxStubAmount

\* the prices of the plans a match-to-lowest rule looks at: all plans when
\* it has no attributes
LowestAmong(plans, attrs) ==
    LET seen == IF Len(attrs) = 0 THEN plans ELSE FilterAttrs(plans, attrs)
    IN {seen[i].price : i \in 1..Len(seen)}

\* a match-to-lowest rule that looks at the plans of every carrier, enabled
\* or not
MatchLowestOutcomesAllCarriers(rule, price, plans) ==
    LET prices == LowestAmong(ShippingPlans, rule.attrs)
    IN IF prices = {} THEN {[exc |-> TRUE, v |-> 0]}
       ELSE {[exc |-> FALSE,
              v |-> price - (CHOOSE a \in prices : \A b \in prices : a <= b)]}

\* MatchPriceToLowestPriceAmongShippingPlans.calculate_discount; min() of no
\* plan raises ValueError
MatchLowestOutcomes(rule, price, plans) ==
    LET prices == LowestAmong(plans, rule.attrs)
    IN IF prices = {} THEN {[exc |-> TRUE, v |-> 0]}
       ELSE {[exc |-> FALSE,
              v |-> price - (CHOOSE a \in prices : \A b \in prices : a <= b)]}

\* the outcomes of size_rule.calculate_discount: exc = TRUE is an exception;
\* a variant other than the two of the repository is left open
SizeOutcomes(rule, price, plans) ==
    CASE rule.name = "rule_discount_size_full_price" ->
            {[exc |-> FALSE, v |-> price]}
      [] rule.name = "rule_match_price_to_lowest_among_shipping_plans" ->
            MatchLowestOutcomes(rule, price, plans)
      [] OTHER -> {[exc |-> FALSE, v |-> a] : a \in StubAmounts}
                  \cup {[exc |-> TRUE, v |-> 0]}

\* a limiter that returns what is left of the cap, below zero too
LimiterCorrectUnclamped(cap, discount, txn, hist) ==
    LET accumulated ==
            get_discount_sum(hist, MonthStart(txn.date), MonthEnd(txn.date))
    IN IF discount + accumulated <= cap THEN discount
       ELSE cap - accumulated

\* a limiter that returns what is left of the cap, above the discount too
LimiterCorrectRemaining(cap, discount, txn, hist) ==
    LET accumulated ==
            get_discount_sum(hist, MonthStart(txn.date), MonthEnd(txn.date))
    IN IF cap - accumulated > 0 THEN cap - accumulated ELSE 0

\* BasicMonthlyDiscountSizeLimiter.correct
LimiterCorrect(cap, discount, txn, hist) ==
    LET accumulated ==
            get_discount_sum(hist, MonthStart(txn.date), MonthEnd(txn.date))
    IN IF discount + accumulated <= cap THEN discount
       ELSE IF cap - accumulated > 0 THEN cap - accumulated ELSE 0

\* the outcomes of size_correction_rule.correct(discount=...); a variant
\* other than the monthly limiter may return any amount, None, or raise
CorrectionOutcomes(rule, discount, txn, hist) ==
    IF rule.name = "basic_monthly_discount_size_limiter"
    THEN {[exc |-> FALSE, v |-> Some(LimiterCorrect(rule.size, discount, txn, hist))]}
    ELSE {[exc |-> FALSE, v |-> Some(a)] : a \in StubAmounts}
         \cup {[exc |-> FALSE, v |-> None], [exc |-> TRUE, v |-> None]}

\* ------------------------------------------------- DiscountRuleExecutor
\* the evaluation task of one executor, created but not yet run; fin is the
\* position of the task in the order in which the tasks returned (0 before)
NewExecution ==
    [st |-> "new", tasks |-> <<>>, size_calls |-> 0, correct_calls |-> 0,
     raw |-> None, arg |-> None, corrected |-> None, result |-> None,
     fin |-> 0]

Running == {"new", "elig", "size", "corr"}

\* execute_rule up to its first suspension: _is_eligible returns True at once
\* when eligibility_rules is None, creates one task per rule otherwise (and
\* falls through the as_completed loop when there is none)
StartExecution(x, rule) ==
    IF IsNone(rule.eligibility_rules) THEN [x EXCEPT !.st = "size"]
    ELSE LET n == Len(Val(rule.eligibility_rules))
         IN [x EXCEPT !.tasks = [i \in 1..n |-> "run"],
                      !.st = IF n = 0 THEN "size" ELSE "elig"]

\* a loop that takes the first completed task as the verdict
EligibilityStepFirstCompleted(x, i, o) ==
    LET t1 == [j \in DOMAIN x.tasks |->
                 IF j = i THEN o
                 ELSE IF x.tasks[j] = "run" THEN "cancelled" ELSE x.tasks[j]]
    IN IF o = "raised" THEN [x EXCEPT !.tasks = t1, !.st = "failed"]
       ELSE IF o = "false"
       THEN [x EXCEPT !.tasks = t1, !.st = "done", !.result = None]
       ELSE [x EXCEPT !.tasks = t1, !.st = "size"]

\* _is_eligible, one turn of the as_completed loop: task i completes with
\* outcome o and is the next one the loop awaits
EligibilityStep(x, i, o) ==
    LET t1 == [x.tasks EXCEPT ![i] = o]
    IN IF o = "raised" THEN [x EXCEPT !.tasks = t1, !.st = "failed"]
       ELSE IF o = "false"
       THEN [x EXCEPT !.tasks = [j \in DOMAIN t1 |->
                                   IF t1[j] = "run" THEN "cancelled" ELSE t1[j]],
                      !.st = "done", !.result = None]
       ELSE [x EXCEPT !.tasks = t1,
                      !.st = IF \A j \in DOMAIN t1 : t1[j] = "true"
                             THEN "size" ELSE "elig"]

\* a negative size treated as an error
SizeStepNegativeRaises(x, rule, o) ==
    LET y == [x EXCEPT !.size_calls = @ + 1]
    IN IF o.exc THEN [y EXCEPT !.st = "failed"]
       ELSE IF o.v < 0
       THEN [y EXCEPT !.raw = Some(o.v), !.st = "failed"]
       ELSE IF IsNone(rule.size_correction_rule)
       THEN [y EXCEPT !.raw = Some(o.v), !.st = "done",
                      !.result = IF o.v = 0 THEN None ELSE Some(o.v)]
       ELSE [y EXCEPT !.raw = Some(o.v), !.st = "corr", !.arg = Some(o.v)]

\* execute_rule from the size rule's result to the correction rule
SizeStep(x, rule, o) ==
    LET y == [x EXCEPT !.size_calls = @ + 1]
    IN IF o.exc THEN [y EXCEPT !.st = "failed"]
       ELSE IF o.v < 0
       THEN [y EXCEPT !.raw = Some(o.v), !.st = "done", !.result = None]
       ELSE IF IsNone(rule.size_correction_rule)
       THEN [y EXCEPT !.raw = Some(o.v), !.st = "done",
                      !.result = IF o.v = 0 THEN None ELSE Some(o.v)]
       ELSE [y EXCEPT !.raw = Some(o.v), !.st = "corr", !.arg = Some(o.v)]

\* a correction whose result is dropped for the raw discount
CorrectionStepKeepsRaw(x, o) ==
    LET y == [x EXCEPT !.correct_calls = @ + 1]
    IN IF o.exc THEN [y EXCEPT !.st = "failed"]
       ELSE IF ~IsNone(o.v) /\ Val(o.v) < 0
       THEN [y EXCEPT !.st = "done", !.result = None, !.corrected = o.v]
       ELSE [y EXCEPT !.st = "done", !.corrected = o.v,
                      !.result = IF o.v = Some(0) THEN None ELSE x.arg]

\* execute_rule from the correction rule's result to the return
CorrectionStep(x, o) ==
    LET y == [x EXCEPT !.correct_calls = @ + 1]
    IN IF o.exc THEN [y EXCEPT !.st = "failed"]
       ELSE IF ~IsNone(o.v) /\ Val(o.v) < 0
       THEN [y EXCEPT !.st = "done", !.result = None, !.corrected = o.v]
       ELSE [y EXCEPT !.st = "done", !.corrected = o.v,
                      !.result = IF o.v = Some(0) THEN None ELSE o.v]

\* asyncio.TaskGroup: the failure of task e cancels the tasks still running
CancelSiblings(exs, e) ==
    [j \in DOMAIN exs |->
        IF j # e /\ exs[j].st \in Running
        THEN [exs[j] EXCEPT !.st = "cancelled"] ELSE exs[j]]

\* the executions after execution e moved to state y
AfterStep(exs, e, y) ==
    LET returned == {j \in DOMAIN exs : exs[j].st = "done"}
        y1 == IF y.st = "done"
              THEN [y EXCEPT !.fin = Cardinality(returned) + 1] ELSE y
        exs1 == [exs EXCEPT ![e] = y1]
    IN IF y.st = "failed" THEN CancelSiblings(exs1, e) ELSE exs1

\* ------------------------------------------------------ discount selection
\* sorted(..., reverse=True) is stable: an element goes behind the elements
\* already placed whose key is at least its own
RECURSIVE InsertDesc(_, _)
InsertDesc(sorted, d) ==
    IF sorted = <<>> THEN <<d>>
    ELSE IF Head(sorted).discount >= d.discount
         THEN <<Head(sorted)>> \o InsertDesc(Tail(sorted), d)
         ELSE <<d>> \o sorted

RECURSIVE SortedDesc(_)
SortedDesc(ds) ==
    IF ds = <<>> THEN <<>>
    ELSE InsertDesc(SortedDesc(SubSeq(ds, 1, Len(ds) - 1)), ds[Len(ds)])

\* a selection in which the last of the equal largest amounts wins
get_largest_discount_last_seen(ds) ==
    LET top == SortedDesc(ds)[1].discount
        last == CHOOSE i \in DOMAIN ds :
                   /\ ds[i].discount = top
                   /\ \A j \in DOMAIN ds : ds[j].discount = top => j <= i
    IN ds[last]

\* the sort without reverse=True
get_smallest_discount(ds) == SortedDesc(ds)[Len(ds)]

get_largest_discount(ds) == SortedDesc(ds)[1]

\* a collection that numbers the discounts by their place among the
\* applicable ones instead of by their executor
ApplicableDiscountsRenumbered(rules, exs) ==
    LET idx == SelectSeq([i \in 1..Len(exs) |-> i],
                         LAMBDA i : ~IsNone(exs[i].result))
    IN [k \in 1..Len(idx) |->
          [discount_id |-> rules[k].discount_id,
           discount |-> Val(exs[idx[k]].result)]]

\* _calculate_discount after the task group: the discounts that are not None,
\* in rule order
ApplicableDiscounts(rules, exs) ==
    LET idx == SelectSeq([i \in 1..Len(exs) |-> i],
                         LAMBDA i : ~IsNone(exs[i].result))
    IN [k \in 1..Len(idx) |->
          [discount_id |-> rules[idx[k]].discount_id,
           discount |-> Val(exs[idx[k]].result)]]

CalculateDiscount(rules, exs) ==
    LET applicable == ApplicableDiscounts(rules, exs)
    IN IF Len(applicable) = 0 THEN None
       ELSE Some(get_largest_discount(applicable))

\* ProcessedTransaction(discount_id=, discount=, **transaction)
ProcessedTransaction(req, sel) ==
    [date |-> Val(FromIsoformat(req.date)),
     package_size |-> Normalize(req.package_size),
     carrier |-> Normalize(req.carrier),
     discount_id |-> IF IsNone(sel) THEN None ELSE Some(Val(sel).discount_id),
     discount |-> IF IsNone(sel) THEN None ELSE Some(Val(sel).discount)]

\* a response that reports the discount without taking it off the price
GetResponseUnreduced(price, discount) ==
    [reduced_price |-> price, applied_discount |-> discount]

\* _get_response
GetResponse(price, discount) ==
    IF ~IsNone(discount)
    THEN [reduced_price |-> price - Val(discount), applied_discount |-> discount]
    ELSE [reduced_price |-> price, applied_discount |-> None]

\* ------------------------------------------------------ rule registration
RuleSystems == {"eligibility", "size", "correction"}

\* a rule class: the methods it defines and the argument names of its
\* correct method
RuleClass(cls, methods, correct_args) ==
    [cls |-> cls, methods |-> methods, correct_args |-> correct_args]

has_method(obj, name) == name \in obj.methods

has_method_arg(obj, method, arg) == arg \in obj.correct_args

\* the registry of each rule system once the subrule modules are imported
RegisteredRules ==
    [k \in RuleSystems |->
        IF k = "eligibility"
        THEN [n \in EligibilityRuleNames |->
                 RuleClass(n, {"eligible"}, {})]
        ELSE IF k = "size"
        THEN [n \in SizeRuleNames |->
                 RuleClass(n, {"calculate_discount"}, {})]
        ELSE [n \in CorrectionRuleNames |->
                 RuleClass(n, {"correct"}, {"discount", "transaction"})]]

\* a class statement that replaces the class registered under its name
InitSubclassOverwriting(rules, system, rule_name, cls) ==
    IF ~IsNone(rule_name)
    THEN [err |-> IF Val(rule_name) \in DOMAIN rules[system]
                  THEN "ValueError" ELSE "",
          rules |-> [rules EXCEPT ![system] =
                        [n \in DOMAIN @ \cup {Val(rule_name)} |->
                            IF n = Val(rule_name) THEN cls ELSE @[n]]]]
    ELSE [err |-> "TypeError", rules |-> rules]

\* __init_subclass__ for a class derived from a rule system: the error it
\* raises ("" for none) and the registries afterwards
InitSubclass(rules, system, rule_name, cls) ==
    IF ~IsNone(rule_name)
    THEN IF Val(rule_name) \in DOMAIN rules[system]
         THEN [err |-> "ValueError", rules |-> rules]
         ELSE [err |-> "",
               rules |-> [rules EXCEPT ![system] =
                             [n \in DOMAIN @ \cup {Val(rule_name)} |->
                                 IF n = Val(rule_name) THEN cls ELSE @[n]]]]
    ELSE [err |-> "TypeError", rules |-> rules]

\* a constructor that does not look at the arguments of correct
ExecutorInitArgsUnchecked(size_rule, eligibility_rules, size_correction_rule) ==
    IF /\ ~IsNone(eligibility_rules)
       /\ \E i \in DOMAIN Val(eligibility_rules) :
             ~has_method(Val(eligibility_rules)[i], "eligible")
    THEN "ValueError"
    ELSE IF ~has_method(size_rule, "calculate_discount") THEN "ValueError"
    ELSE IF /\ ~IsNone(size_correction_rule)
            /\ ~has_method(Val(size_correction_rule), "correct")
    THEN "ValueError"
    ELSE ""

\* DiscountRuleExecutor.__init__: the error it raises, "" for none
ExecutorInit(size_rule, eligibility_rules, size_correction_rule) ==
    IF /\ ~IsNone(eligibility_rules)
       /\ \E i \in DOMAIN Val(eligibility_rules) :
             ~has_method(Val(eligibility_rules)[i], "eligible")
    THEN "ValueError"
    ELSE IF ~has_method(size_rule, "calculate_discount") THEN "ValueError"
    ELSE IF /\ ~IsNone(size_correction_rule)
            /\ ~has_method(Val(size_correction_rule), "correct")
    THEN "ValueError"
    ELSE IF /\ ~IsNone(size_correction_rule)
            /\ ~has_method_arg(Val(size_correction_rule), "correct",
                               "discount")
    THEN "ValueError"
    ELSE ""

NoClass == RuleClass("", {}, {})

\* no class statement beyond the imported modules and no executor
\* constructed yet
InitRules ==
    /\ rule_registry = RegisteredRules
    /\ class_stmt = [system |-> "", rule_name |-> None, cls |-> NoClass,
                     err |-> ""]
    /\ executor = [size_rule |-> NoClass, eligibility_rules |-> None,
                   size_correction_rule |-> None, err |-> "", obj |-> None]

\* ------------------------------------------------------------- Decimal
\* decimal.Decimal: the value c * 10^e of a finite number, as_tuple() gives
\* the digits of c and the exponent e
Decimal(c, e) == [c |-> c, e |-> e, finite |-> TRUE]

\* Decimal("Infinity"), Decimal("NaN"): the exponent is not an int
NonFinite == [c |-> 0, e |-> 0, finite |-> FALSE]

NoFormat == [called |-> FALSE, value |-> None, err |-> "", result |-> None]

RECURSIVE Pow10(_)
Pow10(n) == IF n <= 0 THEN 1 ELSE 10 * Pow10(n - 1)

\* the coefficient of a at the exponent m <= a.e
Coef(a, m) == a.c * Pow10(a.e - m)

MinExp(a, b) == IF a.e < b.e THEN a.e ELSE b.e

\* a + b and a - b: exact, at the smaller exponent
DecAdd(a, b) ==
    Decimal(Coef(a, MinExp(a, b)) + Coef(b, MinExp(a, b)), MinExp(a, b))

DecSub(a, b) ==
    Decimal(Coef(a, MinExp(a, b)) - Coef(b, MinExp(a, b)), MinExp(a, b))

\* a <= b and a == b compare the values, whatever the exponents
DecLeq(a, b) == Coef(a, MinExp(a, b)) <= Coef(b, MinExp(a, b))

DecEq(a, b) == Coef(a, MinExp(a, b)) = Coef(b, MinExp(a, b))

\* a.max(0): a when it is positive, else the operand with the larger
\* exponent among equals, else Decimal(0)
DecMaxZero(a) == IF a.c > 0 \/ (a.c = 0 /\ a.e > 0) THEN a ELSE Decimal(0, 0)

\* value.quantize(Decimal("1.00"), rounding=ROUND_DOWN) of a value >= 0
Quantize(value, dec_places) ==
    IF value.e >= -dec_places
    THEN Decimal(value.c * Pow10(value.e + dec_places), -dec_places)
    ELSE Decimal(value.c \div Pow10(-dec_places - value.e), -dec_places)

\* make_decimal_places_formatter(dec_places)(value): the error raised ("" for
\* none) and the value returned; digits[-dec_places:] are the last
\* dec_places digits of the coefficient
DecimalPlacesFormatter(dec_places, value) ==
    IF IsNone(value) THEN [err |-> "", v |-> None]
    ELSE IF ~Val(value).finite THEN [err |-> "ValueError", v |-> None]
    ELSE IF /\ (IF Val(value).e < 0 THEN -Val(value).e ELSE Val(value).e)
                  > dec_places
            /\ Val(value).c % Pow10(dec_places) # 0
    THEN [err |-> "ValueError", v |-> None]
    ELSE [err |-> "", v |-> Some(Quantize(Val(value), dec_places))]

CURRENCY_DECIMAL_PLACES == 2

format_currency_decimal_places(x) ==
    DecimalPlacesFormatter(CURRENCY_DECIMAL_PLACES, x)

\* sum(total_elements), or Decimal("0") when there is none
DecSum(discounts) ==
    LET RECURSIVE Sum(_)
        Sum(i) == IF i = 0 THEN Decimal(0, 0)
                  ELSE DecAdd(Sum(i - 1), discounts[i])
    IN Sum(Len(discounts))

\* BasicMonthlyDiscountSizeLimiter.correct on Decimal amounts
LimiterCorrectDecimal(size, discount, accumulated) ==
    IF DecLeq(DecAdd(discount, accumulated), size) THEN discount
    ELSE DecMaxZero(DecSub(size, accumulated))

\* no amount processed and no formatter call made
NoAmounts ==
    [price |-> Decimal(0, 0), cap |-> Decimal(0, 0), saved |-> <<>>,
     ncalls |-> 0, err |-> "", resp |-> None, fmt |-> NoFormat]

\* -------------------------------------------------------------------- Init
Init ==
    /\ carrier_statuses = CarrierStatuses
    /\ transactions = <<>>
    /\ rule_set \in RuleSets
    /\ lock_owner = 0
    /\ call = [p \in Procs |-> IdleCall]
    /\ active = {1}
    /\ ncalls = 0
    /\ nset = 0
    /\ set_error = ""
    /\ InitRules
    /\ amounts = NoAmounts

\* ------------------------------------------------- process_transaction steps
\* the call starts: get_shipping_plans
StartCall(p, req) ==
    /\ p \in active
    /\ call[p].pc \in {"idle", "done"}
    /\ ncalls' = ncalls + 1
    /\ call' = [call EXCEPT ![p] =
                   [IdleCall EXCEPT !.pc = "validate", !.req = req,
                                    !.plans = get_shipping_plans(carrier_statuses)]]
    /\ UNCHANGED <<carrier_statuses, transactions, rule_set, lock_owner,
                   active, nset, set_error,
                   rule_registry, class_stmt, executor, amounts>>

Call(p, req) ==
    /\ ncalls < MaxCalls
    /\ StartCall(p, req)

\* a validation that runs after lock.acquire()
ValidateLocked(p) ==
    LET c == call[p]
        e == ValidationError(c.req, c.plans, carrier_statuses)
    IN /\ c.pc = "validate"
       /\ call' = [call EXCEPT ![p] =
                      IF e # ""
                      THEN [c EXCEPT !.pc = "done", !.err = e,
                                     !.log = Append(@, "acquire")]
                      ELSE [c EXCEPT !.pc = "rules",
                                     !.txn = Some(UnprocessedTransaction(c.req))]]
       /\ lock_owner' = IF e # "" THEN p ELSE lock_owner
       /\ UNCHANGED <<carrier_statuses, transactions, rule_set,
                      active, ncalls, nset, set_error,
                      rule_registry, class_stmt, executor, amounts>>

\* _validate_and_process_transaction_request
Validate(p) ==
    LET c == call[p]
        e == ValidationError(c.req, c.plans, carrier_statuses)
    IN /\ c.pc = "validate"
       /\ call' = [call EXCEPT ![p] =
                      IF e # "" THEN [c EXCEPT !.pc = "done", !.err = e]
                      ELSE [c EXCEPT !.pc = "rules",
                                     !.txn = Some(UnprocessedTransaction(c.req))]]
       /\ UNCHANGED <<carrier_statuses, transactions, rule_set, lock_owner,
                      active, ncalls, nset, set_error,
                      rule_registry, class_stmt, executor, amounts>>

\* executors built once, from the rule set active at construction
BuildRulesAtConstruction(p) ==
    LET c == call[p]
        txn == Val(c.txn)
        r == GetRules(RuleSetReference)
    IN /\ c.pc = "rules"
       /\ call' = [call EXCEPT ![p] =
                      IF ~r.ok THEN [c EXCEPT !.pc = "done", !.err = r.err]
                      ELSE [c EXCEPT !.pc = "acquire", !.rules = r.rules,
                               !.price = Find(c.plans, txn.carrier,
                                              txn.package_size).price]]
       /\ UNCHANGED <<carrier_statuses, transactions, rule_set, lock_owner,
                      active, ncalls, nset, set_error,
                      rule_registry, class_stmt, executor, amounts>>

\* _get_price, then _get_rules
BuildRules(p) ==
    LET c == call[p]
        txn == Val(c.txn)
        r == GetRules(rule_set)
    IN /\ c.pc = "rules"
       /\ call' = [call EXCEPT ![p] =
                      IF ~r.ok THEN [c EXCEPT !.pc = "done", !.err = r.err]
                      ELSE [c EXCEPT !.pc = "acquire", !.rules = r.rules,
                               !.price = Find(c.plans, txn.carrier,
                                              txn.package_size).price]]
       /\ UNCHANGED <<carrier_statuses, transactions, rule_set, lock_owner,
                      active, ncalls, nset, set_error,
                      rule_registry, class_stmt, executor, amounts>>

\* lock.acquire(): returns once the lock is free
Acquire(p) ==
    /\ call[p].pc = "acquire"
    /\ lock_owner = 0
    /\ lock_owner' = p
    /\ call' = [call EXCEPT ![p].pc = "begin", ![p].log = Append(@, "acquire")]
    /\ UNCHANGED <<carrier_statuses, transactions, rule_set, active, ncalls,
                   nset, set_error,
                   rule_registry, class_stmt, executor, amounts>>

\* UnitOfWorkMixin.__aenter__, then the task group creates one task per rule
Begin(p) ==
    /\ call[p].pc = "begin"
    /\ call' = [call EXCEPT ![p].pc = "eval", ![p].log = Append(@, "begin"),
                            ![p].ex = [e \in 1..Len(call[p].rules) |-> NewExecution]]
    /\ UNCHANGED <<carrier_statuses, transactions, rule_set, lock_owner,
                   active, ncalls, nset, set_error,
                   rule_registry, class_stmt, executor, amounts>>

\* an executor's task runs for the first time
Start(p, e) ==
    /\ call[p].pc = "eval"
    /\ e \in DOMAIN call[p].ex
    /\ call[p].ex[e].st = "new"
    /\ call' = [call EXCEPT ![p].ex[e] = StartExecution(@, call[p].rules[e])]
    /\ UNCHANGED <<carrier_statuses, transactions, rule_set, lock_owner,
                   active, ncalls, nset, set_error,
                   rule_registry, class_stmt, executor, amounts>>

\* eligibility task i of executor e completes; the as_completed loop of the
\* executor consumes it when the executor is still waiting there
Eligibility(p, e, i) ==
    LET c == call[p]
    IN /\ e \in DOMAIN c.ex
       /\ i \in DOMAIN c.ex[e].tasks
       /\ c.ex[e].tasks[i] = "run"
       /\ \E o \in EligibilityOutcomes(Val(c.rules[e].eligibility_rules)[i],
                                        Val(c.txn), transactions) :
             call' = [call EXCEPT ![p].ex =
                        IF c.ex[e].st = "elig"
                        THEN AfterStep(c.ex, e, EligibilityStep(c.ex[e], i, o))
                        ELSE [c.ex EXCEPT ![e].tasks[i] = o]]
       /\ UNCHANGED <<carrier_statuses, transactions, rule_set, lock_owner,
                      active, ncalls, nset, set_error,
                      rule_registry, class_stmt, executor, amounts>>

\* the size rule of executor e returns
Size(p, e) ==
    LET c == call[p]
    IN /\ c.pc = "eval"
       /\ e \in DOMAIN c.ex
       /\ c.ex[e].st = "size"
       /\ \E o \in SizeOutcomes(c.rules[e].size_rule, c.price, c.plans) :
             call' = [call EXCEPT ![p].ex =
                        AfterStep(c.ex, e, SizeStep(c.ex[e], c.rules[e], o))]
       /\ UNCHANGED <<carrier_statuses, transactions, rule_set, lock_owner,
                      active, ncalls, nset, set_error,
                      rule_registry, class_stmt, executor, amounts>>

\* the correction rule of executor e returns
Correction(p, e) ==
    LET c == call[p]
    IN /\ c.pc = "eval"
       /\ e \in DOMAIN c.ex
       /\ c.ex[e].st = "corr"
       /\ \E o \in CorrectionOutcomes(Val(c.rules[e].size_correction_rule),
                                       Val(c.ex[e].arg), Val(c.txn), transactions) :
             call' = [call EXCEPT ![p].ex =
                        AfterStep(c.ex, e, CorrectionStep(c.ex[e], o))]
       /\ UNCHANGED <<carrier_statuses, transactions, rule_set, lock_owner,
                      active, ncalls, nset, set_error,
                      rule_registry, class_stmt, executor, amounts>>

\* a selection and save that do not wait for the executors still running
SaveUnawaited(p) ==
    LET c == call[p]
        sel == CalculateDiscount(c.rules, c.ex)
    IN /\ c.pc = "eval"
       /\ IF \E e \in DOMAIN c.ex : c.ex[e].st = "failed"
          THEN /\ call' = [call EXCEPT ![p].pc = "abort",
                                       ![p].err = "ExceptionGroup"]
               /\ UNCHANGED transactions
          ELSE /\ call' = [call EXCEPT ![p].pc = "reacquire", ![p].sel = sel,
                                       ![p].log = Append(@, "save")]
               /\ transactions' =
                      Append(transactions, ProcessedTransaction(c.req, sel))
       /\ UNCHANGED <<carrier_statuses, rule_set, lock_owner, active, ncalls,
                      nset, set_error,
                      rule_registry, class_stmt, executor, amounts>>

\* a gather that drops the failed tasks and goes on with the other results
SavePartial(p) ==
    LET c == call[p]
        sel == CalculateDiscount(c.rules, c.ex)
    IN /\ c.pc = "eval"
       /\ \A e \in DOMAIN c.ex : c.ex[e].st \notin Running
       /\ call' = [call EXCEPT ![p].pc = "reacquire", ![p].sel = sel,
                               ![p].log = Append(@, "save")]
       /\ transactions' = Append(transactions, ProcessedTransaction(c.req, sel))
       /\ UNCHANGED <<carrier_statuses, rule_set, lock_owner, active, ncalls,
                      nset, set_error,
                      rule_registry, class_stmt, executor, amounts>>

\* the task group is left: with a failed task the exception group leaves the
\* unit of work; otherwise the discount is selected and the
\* ProcessedTransaction is saved
Save(p) ==
    LET c == call[p]
        sel == CalculateDiscount(c.rules, c.ex)
    IN /\ c.pc = "eval"
       /\ \A e \in DOMAIN c.ex : c.ex[e].st \notin Running
       /\ IF \E e \in DOMAIN c.ex : c.ex[e].st = "failed"
          THEN /\ call' = [call EXCEPT ![p].pc = "abort",
                                       ![p].err = "ExceptionGroup"]
               /\ UNCHANGED transactions
          ELSE /\ call' = [call EXCEPT ![p].pc = "reacquire", ![p].sel = sel,
                                       ![p].log = Append(@, "save")]
               /\ transactions' =
                      Append(transactions, ProcessedTransaction(c.req, sel))
       /\ UNCHANGED <<carrier_statuses, rule_set, lock_owner, active, ncalls,
                      nset, set_error,
                      rule_registry, class_stmt, executor, amounts>>

\* a reacquire whose LockNotOwnedException is swallowed
ReacquireSwallowed(p) ==
    /\ call[p].pc = "reacquire"
    /\ call' = [call EXCEPT
                   ![p].log = Append(@, IF lock_owner = p THEN "reacquire"
                                        ELSE "reacquire_not_owned"),
                   ![p].pc = "commit"]
    /\ UNCHANGED <<carrier_statuses, transactions, rule_set, lock_owner,
                   active, ncalls, nset, set_error,
                   rule_registry, class_stmt, executor, amounts>>

\* lock.reacquire(): LockNotOwnedException when the lock is no longer owned
Reacquire(p) ==
    /\ call[p].pc = "reacquire"
    /\ call' = [call EXCEPT
                   ![p].log = Append(@, IF lock_owner = p THEN "reacquire"
                                        ELSE "reacquire_not_owned"),
                   ![p].pc = IF lock_owner = p THEN "commit" ELSE "abort",
                   ![p].err = IF lock_owner = p THEN @ ELSE "LockNotOwned"]
    /\ UNCHANGED <<carrier_statuses, transactions, rule_set, lock_owner,
                   active, ncalls, nset, set_error,
                   rule_registry, class_stmt, executor, amounts>>

\* UnitOfWorkMixin.__aexit__ without an exception
Commit(p) ==
    /\ call[p].pc = "commit"
    /\ call' = [call EXCEPT ![p].pc = "release", ![p].log = Append(@, "commit")]
    /\ UNCHANGED <<carrier_statuses, transactions, rule_set, lock_owner,
                   active, ncalls, nset, set_error,
                   rule_registry, class_stmt, executor, amounts>>

\* an __aexit__ that commits whatever exception leaves the block
AbortCommitting(p) ==
    /\ call[p].pc = "abort"
    /\ call' = [call EXCEPT ![p].pc = "release", ![p].log = Append(@, "commit")]
    /\ UNCHANGED <<carrier_statuses, transactions, rule_set, lock_owner,
                   active, ncalls, nset, set_error,
                   rule_registry, class_stmt, executor, amounts>>

\* an abort after which the exception is raised without lock.release()
AbortWithoutRelease(p) ==
    /\ call[p].pc = "abort"
    /\ call' = [call EXCEPT ![p].pc = "done", ![p].log = Append(@, "abort")]
    /\ UNCHANGED <<carrier_statuses, transactions, rule_set, lock_owner,
                   active, ncalls, nset, set_error,
                   rule_registry, class_stmt, executor, amounts>>

\* UnitOfWorkMixin.__aexit__ with an exception; the in-memory repository
\* takes no part in the unit of work, so what save appended stays
Abort(p) ==
    /\ call[p].pc = "abort"
    /\ call' = [call EXCEPT ![p].pc = "release", ![p].log = Append(@, "abort")]
    /\ UNCHANGED <<carrier_statuses, transactions, rule_set, lock_owner,
                   active, ncalls, nset, set_error,
                   rule_registry, class_stmt, executor, amounts>>

\* an except branch that lets the LockNotOwnedException of release replace
\* the original exception
ReleaseReplacingError(p) ==
    LET c == call[p]
        owned == lock_owner = p
        released == IF owned THEN "release" ELSE "release_not_owned"
    IN /\ c.pc = "release"
       /\ lock_owner' = IF owned THEN 0 ELSE lock_owner
       /\ call' = [call EXCEPT ![p] =
                      IF c.err # ""
                      THEN [c EXCEPT !.pc = "done", !.log = Append(@, released),
                               !.err = IF owned THEN @ ELSE "LockNotOwned"]
                      ELSE [c EXCEPT !.pc = "done", !.log = Append(@, released),
                               !.warned = ~owned,
                               !.resp = Some(GetResponse(c.price,
                                   IF IsNone(c.sel) THEN None
                                   ELSE Some(Val(c.sel).discount)))]]
       /\ UNCHANGED <<carrier_statuses, transactions, rule_set, active, ncalls,
                      nset, set_error,
                      rule_registry, class_stmt, executor, amounts>>

\* a release whose LockNotOwnedException is raised on the success path too
ReleaseRaising(p) ==
    LET c == call[p]
        owned == lock_owner = p
        released == IF owned THEN "release" ELSE "release_not_owned"
    IN /\ c.pc = "release"
       /\ lock_owner' = IF owned THEN 0 ELSE lock_owner
       /\ call' = [call EXCEPT ![p] =
                      IF c.err # ""
                      THEN [c EXCEPT !.pc = "done", !.log = Append(@, released)]
                      ELSE IF ~owned
                      THEN [c EXCEPT !.pc = "done", !.log = Append(@, released),
                                     !.err = "LockNotOwned"]
                      ELSE [c EXCEPT !.pc = "done", !.log = Append(@, released),
                               !.resp = Some(GetResponse(c.price,
                                   IF IsNone(c.sel) THEN None
                                   ELSE Some(Val(c.sel).discount)))]]
       /\ UNCHANGED <<carrier_statuses, transactions, rule_set, active, ncalls,
                      nset, set_error,
                      rule_registry, class_stmt, executor, amounts>>

\* lock.release() in the except / else branch, then raise or return
Release(p) ==
    LET c == call[p]
        owned == lock_owner = p
        released == IF owned THEN "release" ELSE "release_not_owned"
    IN /\ c.pc = "release"
       /\ lock_owner' = IF owned THEN 0 ELSE lock_owner
       /\ call' = [call EXCEPT ![p] =
                      IF c.err # ""
                      THEN [c EXCEPT !.pc = "done", !.log = Append(@, released)]
                      ELSE [c EXCEPT !.pc = "done", !.log = Append(@, released),
                               !.warned = ~owned,
                               !.resp = Some(GetResponse(c.price,
                                   IF IsNone(c.sel) THEN None
                                   ELSE Some(Val(c.sel).discount)))]]
       /\ UNCHANGED <<carrier_statuses, transactions, rule_set, active, ncalls,
                      nset, set_error,
                      rule_registry, class_stmt, executor, amounts>>

\* ------------------------------------------------------------ environment
\* the lease of the lock runs out
LeaseExpire ==
    /\ lock_owner # 0
    /\ lock_owner' = 0
    /\ UNCHANGED <<carrier_statuses, transactions, rule_set, call, active,
                   ncalls, nset, set_error,
                   rule_registry, class_stmt, executor, amounts>>

\* CarrierService.set_enabled
DoSetEnabled(carrier, enabled) ==
    /\ nset' = nset + 1
    /\ carrier_statuses' = repo_set_enabled(carrier_statuses, carrier, enabled)
    /\ set_error' = IF Len(FilterCarrier(carrier_statuses, carrier)) = 0
                    THEN "CarrierDoesNotExist" ELSE ""
    /\ UNCHANGED <<transactions, rule_set, lock_owner, call, active, ncalls,
                   rule_registry, class_stmt, executor, amounts>>

SetEnabled(carrier, enabled) ==
    /\ nset < MaxSetEnabled
    /\ DoSetEnabled(carrier, enabled)

Next ==
    \/ \E p \in Procs, req \in Requests : Call(p, req)
    \/ \E p \in Procs : Validate(p)
    \/ \E p \in Procs : BuildRules(p)
    \/ \E p \in Procs : Acquire(p)
    \/ \E p \in Procs : Begin(p)
    \/ \E p \in Procs, e \in RuleIndex : Start(p, e)
    \/ \E p \in Procs, e \in RuleIndex, i \in EligibilityIndex :
          Eligibility(p, e, i)
    \/ \E p \in Procs, e \in RuleIndex : Size(p, e)
    \/ \E p \in Procs, e \in RuleIndex : Correction(p, e)
    \/ \E p \in Procs : Save(p)
    \/ \E p \in Procs : Reacquire(p)
    \/ \E p \in Procs : Commit(p)
    \/ \E p \in Procs : Abort(p)
    \/ \E p \in Procs : Release(p)
    \/ LeaseExpire
    \/ \E c \in {"A", "B", "Z"}, en \in BOOLEAN : SetEnabled(c, en)

Spec == Init /\ [][Next]_vars

\* ------------------------------------------------- the limiter on its own
\* BasicMonthlyDiscountSizeLimiter.correct applied to a raw discount, a cap
\* and a history drawn from bounded sets: the executor of the one rule of
\* the set waits for its correction rule, the size rule having returned
\* the raw discount

\* the days around the ends of February 2024
HistDates == {20240131, 20240201, 20240229, 20240301}
LimiterReqDates == {<<2024, 2, 1>>, <<2024, 2, 29>>}

\* the records save can have stored: no discount, or a positive one
HistRecords ==
    {[date |-> d, package_size |-> "S", carrier |-> "A",
      discount_id |-> IF a = 0 THEN None ELSE Some(1),
      discount |-> IF a = 0 THEN None ELSE Some(a)] :
        d \in HistDates, a \in 0..2}

Histories == UNION {[1..n -> HistRecords] : n \in 0..MaxHist}

RuleSetLimiter(cap) ==
    << DiscountRule(1, Subrule("custom"), None, Some(Limiter(cap))) >>

InitLimiter ==
    /\ carrier_statuses = CarrierStatuses
    /\ transactions \in Histories
    /\ \E cap \in 1..MaxCap : rule_set = RuleSetLimiter(cap)
    /\ lock_owner = 1
    /\ \E date \in LimiterReqDates, d \in 0..MaxRaw :
          LET req == [date |-> date, carrier |-> "A", package_size |-> "S"]
          IN call = [p \in Procs |->
                       IF p # 1 THEN IdleCall
                       ELSE [IdleCall EXCEPT
                               !.pc = "eval", !.req = req,
                               !.plans = get_shipping_plans(CarrierStatuses),
                               !.txn = Some(UnprocessedTransaction(req)),
                               !.price = Find(ShippingPlans, "A", "S").price,
                               !.rules = GetRules(rule_set).rules,
                               !.log = <<"acquire", "begin">>,
                               !.ex = <<[NewExecution EXCEPT
                                           !.st = "corr", !.size_calls = 1,
                                           !.raw = Some(d), !.arg = Some(d)]>>]]
    /\ active = {1}
    /\ ncalls = 1
    /\ nset = 0
    /\ set_error = ""
    /\ InitRules
    /\ amounts = NoAmounts

NextLimiter == \E p \in Procs, e \in RuleIndex : Correction(p, e)

SpecLimiter == InitLimiter /\ [][NextLimiter]_vars

\* ------------------------------- capped rules, transactions one by one
\* one processor handles MaxSeqCalls transactions dated on the last day of
\* a month and the first day of the next; every rule is a full-price
\* discount under a monthly limiter
SeqReqDates == {<<2010, 1, 31>>, <<2010, 2, 1>>}
SeqRequests == [date : SeqReqDates, carrier : {"A", "b"}, package_size : {"S", "L"}]

RuleSetCapped(c1, c2) ==
    << DiscountRule(1, Subrule("rule_discount_size_full_price"), None,
                    Some(Limiter(c1))),
       DiscountRule(2, Subrule("rule_discount_size_full_price"), None,
                    Some(Limiter(c2))) >>

InitSeq ==
    /\ carrier_statuses = CarrierStatuses
    /\ transactions = <<>>
    /\ \E c1 \in 1..MaxCap, c2 \in 1..MaxCap : rule_set = RuleSetCapped(c1, c2)
    /\ lock_owner = 0
    /\ call = [p \in Procs |-> IdleCall]
    /\ active = {1}
    /\ ncalls = 0
    /\ nset = 0
    /\ set_error = ""
    /\ InitRules
    /\ amounts = NoAmounts

SeqCall(p, req) ==
    /\ ncalls < MaxSeqCalls
    /\ StartCall(p, req)

NextSeq ==
    \/ \E p \in Procs, req \in SeqRequests : SeqCall(p, req)
    \/ \E p \in Procs : Validate(p)
    \/ \E p \in Procs : BuildRules(p)
    \/ \E p \in Procs : Acquire(p)
    \/ \E p \in Procs : Begin(p)
    \/ \E p \in Procs, e \in RuleIndex : Start(p, e)
    \/ \E p \in Procs, e \in RuleIndex : Size(p, e)
    \/ \E p \in Procs, e \in RuleIndex : Correction(p, e)
    \/ \E p \in Procs : Save(p)
    \/ \E p \in Procs : Reacquire(p)
    \/ \E p \in Procs : Commit(p)
    \/ \E p \in Procs : Abort(p)
    \/ \E p \in Procs : Release(p)
    \/ LeaseExpire

SpecSeq == InitSeq /\ [][NextSeq]_vars

\* ------------------- the eligibility variants, transactions one by one
\* one processor handles MaxRefCalls transactions under one full-price rule
\* guarded by one eligibility rule of the repository
EveryNth(n, attrs) ==
    [Subrule("rule_every_nth_transaction") EXCEPT !.n = n, !.attrs = attrs]

MaxNTimes(id, n) ==
    [Subrule("rule_max_n_times_in_calendar_month") EXCEPT
        !.n = n, !.discount_id = id]

RuleSetGuarded(rule) ==
    << DiscountRule(1, Subrule("rule_discount_size_full_price"),
                    Some(<<rule>>), None) >>

FilterCarrierA == << <<"carrier", "A">> >>
FilterCarrierBSizeS == << <<"carrier", "B">>, <<"package_size", "S">> >>

RuleSetsGuarded ==
    {RuleSetGuarded(EveryNth(n, f)) : n \in 1..MaxN, f \in {FilterCarrierA, <<>>}}
    \cup {RuleSetGuarded(MaxNTimes(1, n)) : n \in 1..MaxN}
    \cup {RuleSetGuarded(AttributesEqual(f)) :
             f \in {FilterCarrierA, FilterCarrierBSizeS, <<>>}}

InitRef ==
    /\ carrier_statuses = CarrierStatuses
    /\ transactions = <<>>
    /\ rule_set \in RuleSetsGuarded
    /\ lock_owner = 0
    /\ call = [p \in Procs |-> IdleCall]
    /\ active = {1}
    /\ ncalls = 0
    /\ nset = 0
    /\ set_error = ""
    /\ InitRules
    /\ amounts = NoAmounts

RefCall(p, req) ==
    /\ ncalls < MaxRefCalls
    /\ StartCall(p, req)

NextRef ==
    \/ \E p \in Procs, req \in SeqRequests : RefCall(p, req)
    \/ \E p \in Procs : Validate(p)
    \/ \E p \in Procs : BuildRules(p)
    \/ \E p \in Procs : Acquire(p)
    \/ \E p \in Procs : Begin(p)
    \/ \E p \in Procs, e \in RuleIndex : Start(p, e)
    \/ \E p \in Procs, e \in RuleIndex, i \in EligibilityIndex :
          Eligibility(p, e, i)
    \/ \E p \in Procs, e \in RuleIndex : Size(p, e)
    \/ \E p \in Procs : Save(p)
    \/ \E p \in Procs : Reacquire(p)
    \/ \E p \in Procs : Commit(p)
    \/ \E p \in Procs : Abort(p)
    \/ \E p \in Procs : Release(p)
    \/ LeaseExpire

SpecRef == InitRef /\ [][NextRef]_vars

\* --------------------------- carriers switched off and on between calls
\* one processor handles MaxCarrierCalls transactions under one rule that
\* matches the price to the lowest one of a package size, while carriers,
\* known or not, are enabled and disabled MaxCarrierSets times
MatchLowest(attrs) ==
    [Subrule("rule_match_price_to_lowest_among_shipping_plans") EXCEPT
        !.attrs = attrs]

RuleSetMatchLowest(size) ==
    << DiscountRule(1, MatchLowest(<< <<"package_size", size>> >>), None, None) >>

CarrierRequests ==
    [date : {<<2010, 1, 1>>}, carrier : {"A", "b"}, package_size : {"S", "L"}]

InitCarrier ==
    /\ carrier_statuses = CarrierStatuses
    /\ transactions = <<>>
    /\ rule_set \in {RuleSetMatchLowest(z) : z \in {"S", "L"}}
    /\ lock_owner = 0
    /\ call = [p \in Procs |-> IdleCall]
    /\ active = {1}
    /\ ncalls = 0
    /\ nset = 0
    /\ set_error = ""
    /\ InitRules
    /\ amounts = NoAmounts

CarrierCall(p, req) ==
    /\ ncalls < MaxCarrierCalls
    /\ StartCall(p, req)

CarrierSetEnabled(carrier, enabled) ==
    /\ nset < MaxCarrierSets
    /\ DoSetEnabled(carrier, enabled)

NextCarrier ==
    \/ \E p \in Procs, req \in CarrierRequests : CarrierCall(p, req)
    \/ \E p \in Procs : Validate(p)
    \/ \E p \in Procs : BuildRules(p)
    \/ \E p \in Procs : Acquire(p)
    \/ \E p \in Procs : Begin(p)
    \/ \E p \in Procs, e \in RuleIndex : Start(p, e)
    \/ \E p \in Procs, e \in RuleIndex : Size(p, e)
    \/ \E p \in Procs : Save(p)
    \/ \E p \in Procs : Reacquire(p)
    \/ \E p \in Procs : Commit(p)
    \/ \E p \in Procs : Abort(p)
    \/ \E p \in Procs : Release(p)
    \/ LeaseExpire
    \/ \E c \in {"A", "B", "Z"}, en \in BOOLEAN : CarrierSetEnabled(c, en)

SpecCarrier == InitCarrier /\ [][NextCarrier]_vars

\* --------------------------- two processors, a lock that does not expire
\* both processors take calls; the lock is held until it is released; the
\* one rule has an open eligibility rule next to a max-N rule, and a limiter
RuleSetShared ==
    << DiscountRule(1, Subrule("rule_discount_size_full_price"),
                    Some(<<Subrule("custom"), MaxNTimes(1, 1)>>),
                    Some(Limiter(2))) >>

\* one rule whose first eligibility rule always raises (an attributes rule
\* configured without attributes) and whose second is false for carrier B
RuleSetOrder ==
    << DiscountRule(1, Subrule("rule_discount_size_full_price"),
                    Some(<<AttributesEqual(<<>>),
                           AttributesEqual(FilterCarrierA)>>),
                    None) >>

TwoRequests ==
    [date : {<<2010, 1, 1>>}, carrier : {"A", "b"}, package_size : {"S"}]

InitTwo ==
    /\ carrier_statuses = CarrierStatuses
    /\ transactions = <<>>
    /\ rule_set \in {RuleSetShared, RuleSetOrder}
    /\ lock_owner = 0
    /\ call = [p \in Procs |-> IdleCall]
    /\ active = Procs
    /\ ncalls = 0
    /\ nset = 0
    /\ set_error = ""
    /\ InitRules
    /\ amounts = NoAmounts

TwoCall(p, req) ==
    /\ ncalls < MaxTwoCalls
    /\ StartCall(p, req)

NextTwo ==
    \/ \E p \in Procs, req \in TwoRequests : TwoCall(p, req)
    \/ \E p \in Procs : Validate(p)
    \/ \E p \in Procs : BuildRules(p)
    \/ \E p \in Procs : Acquire(p)
    \/ \E p \in Procs : Begin(p)
    \/ \E p \in Procs, e \in RuleIndex : Start(p, e)
    \/ \E p \in Procs, e \in RuleIndex, i \in EligibilityIndex :
          Eligibility(p, e, i)
    \/ \E p \in Procs, e \in RuleIndex : Size(p, e)
    \/ \E p \in Procs, e \in RuleIndex : Correction(p, e)
    \/ \E p \in Procs : Save(p)
    \/ \E p \in Procs : Reacquire(p)
    \/ \E p \in Procs : Commit(p)
    \/ \E p \in Procs : Abort(p)
    \/ \E p \in Procs : Release(p)

SpecTwo == InitTwo /\ [][NextTwo]_vars

\* ======================================= rule classes and their executors
\* classes a test or an extension declares under a rule system
DeclaredClasses ==
    {RuleClass("Bare", {}, {}),
     RuleClass("CorrectWithoutDiscount",
               {"eligible", "calculate_discount", "correct"},
               {"transaction"}),
     RuleClass("Complete", {"eligible", "calculate_discount", "correct"},
               {"discount"})}

\* the rule names of the class statements: none, a new name, and a name
\* every rule system has registered
DeclaredNames == {None, Some("rule_a"), Some("custom")}

Declared == {<<k, n>> \in RuleSystems \X {"rule_a"} :
                n \in DOMAIN rule_registry[k]}

\* a class statement for a subclass of a rule system
DefineRule(system, rule_name, cls) ==
    LET r == InitSubclass(rule_registry, system, rule_name, cls)
    IN /\ r.err # "" \/ Cardinality(Declared) < MaxDeclared
       /\ rule_registry' = r.rules
       /\ class_stmt' = [system |-> system, rule_name |-> rule_name,
                         cls |-> cls, err |-> r.err]
       /\ UNCHANGED <<carrier_statuses, transactions, rule_set, lock_owner,
                      call, active, ncalls, nset, set_error, executor,
                      amounts>>

\* the classes the constructed rules are objects of
RegisteredClasses(system) ==
    {rule_registry[system][n] :
        n \in DOMAIN rule_registry[system] \cap {"rule_a", "custom"}}

EligibilityLists ==
    {None, Some(<<>>)}
    \cup {Some(<<a>>) : a \in RegisteredClasses("eligibility")}
    \cup {Some(<<a, b>>) : a, b \in RegisteredClasses("eligibility")}

\* DiscountRuleExecutor(...) on objects of registered classes
Construct(size_rule, eligibility_rules, size_correction_rule) ==
    LET err == ExecutorInit(size_rule, eligibility_rules,
                            size_correction_rule)
    IN /\ executor' =
             [size_rule |-> size_rule,
              eligibility_rules |-> eligibility_rules,
              size_correction_rule |-> size_correction_rule,
              err |-> err,
              obj |-> IF err = ""
                      THEN Some([size_rule |-> size_rule,
                                 eligibility_rules |-> eligibility_rules,
                                 size_correction_rule |->
                                     size_correction_rule])
                      ELSE None]
       /\ UNCHANGED <<carrier_statuses, transactions, rule_set, lock_owner,
                      call, active, ncalls, nset, set_error, rule_registry,
                      class_stmt, amounts>>

InitRegistry ==
    /\ carrier_statuses = CarrierStatuses
    /\ transactions = <<>>
    /\ rule_set = RuleSetReference
    /\ lock_owner = 0
    /\ call = [p \in Procs |-> IdleCall]
    /\ active = {}
    /\ ncalls = 0
    /\ nset = 0
    /\ set_error = ""
    /\ InitRules
    /\ amounts = NoAmounts

NextRegistry ==
    \/ \E k \in RuleSystems, n \in DeclaredNames, c \in DeclaredClasses :
          DefineRule(k, n, c)
    \/ \E s \in RegisteredClasses("size"), e \in EligibilityLists,
          c \in {None} \cup {Some(x) : x \in RegisteredClasses("correction")} :
          Construct(s, e, c)

SpecRegistry == InitRegistry /\ [][NextRegistry]_vars

\* ============================================ a provider whose rules change
ProviderRuleSets ==
    {RuleSetReference, RuleSetGuarded(EveryNth(1, <<>>)), RuleSetUnknown,
     RuleSetMatchLowest("S"), RuleSetGuarded(MaxNTimes(1, 1))}

\* the discount rules repository starts to return another rule set
ChangeRules(rs) ==
    /\ rs # rule_set
    /\ rule_set' = rs
    /\ UNCHANGED <<carrier_statuses, transactions, lock_owner, call, active,
                   ncalls, nset, set_error, rule_registry, class_stmt,
                   executor, amounts>>

InitProvider ==
    /\ carrier_statuses = CarrierStatuses
    /\ transactions = <<>>
    /\ rule_set = RuleSetReference
    /\ lock_owner = 0
    /\ call = [p \in Procs |-> IdleCall]
    /\ active = {1}
    /\ ncalls = 0
    /\ nset = 0
    /\ set_error = ""
    /\ InitRules
    /\ amounts = NoAmounts

NextProvider ==
    \/ \E p \in Procs, req \in CarrierRequests : Call(p, req)
    \/ \E p \in Procs : Validate(p)
    \/ \E p \in Procs : BuildRules(p)
    \/ \E p \in Procs : Acquire(p)
    \/ \E p \in Procs : Begin(p)
    \/ \E p \in Procs, e \in RuleIndex : Start(p, e)
    \/ \E p \in Procs, e \in RuleIndex, i \in EligibilityIndex :
          Eligibility(p, e, i)
    \/ \E p \in Procs, e \in RuleIndex : Size(p, e)
    \/ \E p \in Procs, e \in RuleIndex : Correction(p, e)
    \/ \E p \in Procs : Save(p)
    \/ \E p \in Procs : Reacquire(p)
    \/ \E p \in Procs : Commit(p)
    \/ \E p \in Procs : Abort(p)
    \/ \E p \in Procs : Release(p)
    \/ LeaseExpire
    \/ \E rs \in ProviderRuleSets : ChangeRules(rs)

SpecProvider == InitProvider /\ [][NextProvider]_vars

\* ===================================== a unit of work and a save that raise
\* begin, the ProcessedTransaction constructor or save, commit, or abort
\* raises an exception at the step the call has reached; the call logged
\* with _raised did not take effect
Raise(p) ==
    LET c == call[p]
    IN /\ \/ c.pc \in {"begin", "commit", "abort"}
          \/ /\ c.pc = "eval"
             /\ \A e \in DOMAIN c.ex : c.ex[e].st = "done"
       /\ call' = [call EXCEPT ![p] =
                      IF c.pc = "eval"
                      THEN [c EXCEPT !.pc = "abort", !.err = "Exception"]
                      ELSE [c EXCEPT !.pc = "release", !.err = "Exception",
                               !.log = Append(@,
                                  IF c.pc = "begin" THEN "begin_raised"
                                  ELSE IF c.pc = "commit" THEN "commit_raised"
                                  ELSE "abort_raised")]]
       /\ UNCHANGED <<carrier_statuses, transactions, rule_set, lock_owner,
                      active, ncalls, nset, set_error, rule_registry,
                      class_stmt, executor, amounts>>

InitFaults ==
    /\ carrier_statuses = CarrierStatuses
    /\ transactions = <<>>
    /\ rule_set = RuleSetCompeting
    /\ lock_owner = 0
    /\ call = [p \in Procs |-> IdleCall]
    /\ active = {1}
    /\ ncalls = 0
    /\ nset = 0
    /\ set_error = ""
    /\ InitRules
    /\ amounts = NoAmounts

NextFaults ==
    \/ \E p \in Procs, req \in CarrierRequests : Call(p, req)
    \/ \E p \in Procs : Validate(p)
    \/ \E p \in Procs : BuildRules(p)
    \/ \E p \in Procs : Acquire(p)
    \/ \E p \in Procs : Begin(p)
    \/ \E p \in Procs, e \in RuleIndex : Start(p, e)
    \/ \E p \in Procs, e \in RuleIndex : Size(p, e)
    \/ \E p \in Procs : Save(p)
    \/ \E p \in Procs : Reacquire(p)
    \/ \E p \in Procs : Commit(p)
    \/ \E p \in Procs : Abort(p)
    \/ \E p \in Procs : Release(p)
    \/ \E p \in Procs : Raise(p)
    \/ LeaseExpire

SpecFaults == InitFaults /\ [][NextFaults]_vars

\* ---------------------------------------------- two processors, one lease
\* one full-price rule under a monthly limiter; each processor makes one
\* call, and the lease of the lock may run out at any moment
InitLease ==
    /\ carrier_statuses = CarrierStatuses
    /\ transactions = <<>>
    /\ rule_set \in
          {<< DiscountRule(1, Subrule("rule_discount_size_full_price"),
                           None, Some(Limiter(cap))) >> : cap \in 1..MaxCap}
    /\ lock_owner = 0
    /\ call = [p \in Procs |-> IdleCall]
    /\ active = Procs
    /\ ncalls = 0
    /\ nset = 0
    /\ set_error = ""
    /\ InitRules
    /\ amounts = NoAmounts

NextLease ==
    \/ \E p \in Procs, req \in TwoRequests :
          call[p].pc = "idle" /\ StartCall(p, req)
    \/ \E p \in Procs : Validate(p)
    \/ \E p \in Procs : BuildRules(p)
    \/ \E p \in Procs : Acquire(p)
    \/ \E p \in Procs : Begin(p)
    \/ \E p \in Procs, e \in RuleIndex : Start(p, e)
    \/ \E p \in Procs, e \in RuleIndex : Size(p, e)
    \/ \E p \in Procs, e \in RuleIndex : Correction(p, e)
    \/ \E p \in Procs : Save(p)
    \/ \E p \in Procs : Reacquire(p)
    \/ \E p \in Procs : Commit(p)
    \/ \E p \in Procs : Abort(p)
    \/ \E p \in Procs : Release(p)
    \/ LeaseExpire

SpecLease == InitLease /\ [][NextLease]_vars

\* ===================================================== the formatter alone
FormatterInputs ==
    {None, Some(NonFinite)}
    \cup {Some(Decimal(c, e)) :
             c \in 0..MaxCoef, e \in (0 - MaxPlaces)..MaxExp}

\* format_currency_decimal_places(value)
Format(value) ==
    LET r == format_currency_decimal_places(value)
    IN /\ amounts' = [amounts EXCEPT
                         !.fmt = [called |-> TRUE, value |-> value,
                                  err |-> r.err, result |-> r.v]]
       /\ UNCHANGED <<carrier_statuses, transactions, rule_set, lock_owner,
                      call, active, ncalls, nset, set_error, rule_registry,
                      class_stmt, executor>>

InitFormatter ==
    /\ carrier_statuses = CarrierStatuses
    /\ transactions = <<>>
    /\ rule_set = RuleSetReference
    /\ lock_owner = 0
    /\ call = [p \in Procs |-> IdleCall]
    /\ active = {}
    /\ ncalls = 0
    /\ nset = 0
    /\ set_error = ""
    /\ InitRules
    /\ amounts = NoAmounts

NextFormatter == \E value \in FormatterInputs : Format(value)

SpecFormatter == InitFormatter /\ [][NextFormatter]_vars

\* ================================== the amounts of sequentially made calls
\* one shipping plan, the full-price rule with the monthly limiter, and
\* calls of one calendar month made one after the other
ConfiguredPrices ==
    {Decimal(c, e) : c \in 0..MaxPriceCoef, e \in {-3, -2, 0}}

ConfiguredCaps ==
    {Decimal(c, e) : c \in 1..MaxCapCoef, e \in {-4, -3, -2, 0}}

\* process_transaction for the plan: execute_rule with the full-price size
\* rule and the limiter, ProcessedTransaction(discount=...), save, response
ProcessAmount ==
    LET price == amounts.price
        discounts == SelectSeq(amounts.saved, LAMBDA d : ~IsNone(d))
        accumulated == DecSum([i \in 1..Len(discounts) |-> Val(discounts[i])])
        corrected == LimiterCorrectDecimal(amounts.cap, price, accumulated)
        applied == IF price.c = 0 \/ corrected.c = 0 THEN None
                   ELSE Some(corrected)
        stored == format_currency_decimal_places(applied)
    IN /\ amounts.ncalls < MaxAmountCalls
       /\ amounts' =
             IF stored.err # ""
             THEN [amounts EXCEPT !.ncalls = @ + 1,
                                  !.err = "ValidationError", !.resp = None]
             ELSE [amounts EXCEPT
                      !.ncalls = @ + 1, !.err = "",
                      !.saved = Append(@, stored.v),
                      !.resp = Some(
                         IF ~IsNone(applied)
                         THEN [reduced_price |-> DecSub(price, Val(applied)),
                               applied_discount |-> applied]
                         ELSE [reduced_price |-> price,
                               applied_discount |-> None])]
       /\ UNCHANGED <<carrier_statuses, transactions, rule_set, lock_owner,
                      call, active, ncalls, nset, set_error, rule_registry,
                      class_stmt, executor>>

\* the plan price is what ShippingPlan's validator returned; the cap is
\* what the rule was configured with
InitAmounts ==
    /\ carrier_statuses = CarrierStatuses
    /\ transactions = <<>>
    /\ rule_set = RuleSetReference
    /\ lock_owner = 0
    /\ call = [p \in Procs |-> IdleCall]
    /\ active = {}
    /\ ncalls = 0
    /\ nset = 0
    /\ set_error = ""
    /\ InitRules
    /\ \E raw \in ConfiguredPrices, cap \in ConfiguredCaps :
          /\ format_currency_decimal_places(Some(raw)).err = ""
          /\ amounts =
                [NoAmounts EXCEPT
                    !.price = Val(format_currency_decimal_places(Some(raw)).v),
                    !.cap = cap]

NextAmounts == ProcessAmount

SpecAmounts == InitAmounts /\ [][NextAmounts]_vars

\* ================================================================= claims
Logged(p, ev) == ev \in Range(call[p].log)

\* the amounts the executors of the call returned
Returned(p) ==
    {Val(call[p].ex[e].result) :
        e \in {k \in DOMAIN call[p].ex : ~IsNone(call[p].ex[k].result)}}

Applied(p) ==
    IF IsNone(call[p].sel) THEN None ELSE Some(Val(call[p].sel).discount)

\* C1: once the transaction of a call is saved, the discount applied is the
\* maximum of the amounts its executors returned, and no discount is applied
\* iff no executor returned one; the record saved and the response carry it
C1_MaximumApplied ==
    \A p \in Procs :
        Logged(p, "save") =>
            /\ IsNone(Applied(p)) <=> Returned(p) = {}
            /\ Returned(p) # {} =>
                  /\ Val(Applied(p)) \in Returned(p)
                  /\ \A r \in Returned(p) : r <= Val(Applied(p))
            /\ \E i \in DOMAIN transactions :
                  /\ transactions[i].discount = Applied(p)
                  /\ transactions[i].date = Val(call[p].txn).date
                  /\ transactions[i].carrier = Val(call[p].txn).carrier
            /\ ~IsNone(call[p].resp) =>
                  Val(call[p].resp).applied_discount = Applied(p)

C1_Witness ==
    \E p \in Procs :
        /\ call[p].pc = "done" /\ ~IsNone(call[p].resp)
        /\ Len(call[p].ex) = 2
        /\ call[p].ex[1].result = Some(1)
        /\ call[p].ex[2].result = Some(2)
        /\ Val(call[p].resp).applied_discount = Some(2)

\* C2: when reacquire raised LockNotOwnedException after the save, the call
\* never commits, and it ends with abort called and LockNotOwnedException
\* raised to the caller
C2_ReacquireNotOwnedAborts ==
    \A p \in Procs :
        Logged(p, "reacquire_not_owned") =>
            /\ Logged(p, "save")
            /\ ~Logged(p, "commit")
            /\ IsNone(call[p].resp)
            /\ call[p].pc \in {"abort", "release", "done"}
            /\ call[p].pc # "abort" => Logged(p, "abort")
            /\ call[p].err = "LockNotOwned"

C2_Witness ==
    \E p \in Procs :
        /\ call[p].pc = "done"
        /\ Logged(p, "reacquire_not_owned")
        /\ Logged(p, "abort")
        /\ call[p].err = "LockNotOwned"

\* C3: when release raised LockNotOwnedException after the commit, the call
\* raises nothing and returns the response computed from the price and the
\* selected discount; it logs a warning and the saved record stays
C3_ReleaseNotOwnedReturns ==
    \A p \in Procs :
        (Logged(p, "commit") /\ Logged(p, "release_not_owned")) =>
            /\ call[p].pc = "done"
            /\ call[p].err = ""
            /\ call[p].warned
            /\ ~Logged(p, "abort")
            /\ ~IsNone(call[p].resp)
            /\ Val(call[p].resp).applied_discount = Applied(p)
            /\ Val(call[p].resp).reduced_price =
                  call[p].price - (IF IsNone(Applied(p)) THEN 0 ELSE Val(Applied(p)))
            /\ \E i \in DOMAIN transactions :
                  transactions[i] = ProcessedTransaction(call[p].req, call[p].sel)

C3_Witness ==
    \E p \in Procs :
        /\ call[p].pc = "done"
        /\ Logged(p, "commit")
        /\ Logged(p, "release_not_owned")
        /\ ~IsNone(call[p].resp)
        /\ ~IsNone(Applied(p))

\* C4: the step that rejects a request ends the call with the error and with
\* no call to the lock, the unit of work or save, and leaves the lock and
\* the transaction history as they were
C4_RejectionTouchesNothing ==
    [][\A p \in Procs :
          (/\ call[p].pc = "validate"
           /\ call'[p].pc # "validate"
           /\ call'[p].pc # "rules") =>
              /\ call'[p].pc = "done"
              /\ call'[p].err \in {"InvalidTransactionRequest", "CarrierDoesNotExist",
                                    "CarrierDisabled", "InvalidTransactionDate"}
              /\ call'[p].log = <<>>
              /\ call'[p].ex = <<>>
              /\ lock_owner' = lock_owner
              /\ transactions' = transactions]_vars

C4_Witness ==
    \E p \in Procs :
        /\ call[p].pc = "done"
        /\ call[p].err = "CarrierDisabled"
        /\ call[p].log = <<>>
        /\ lock_owner = 0

\* C5: the validation step reports the first failing check in the order
\* malformed date, unknown carrier, disabled carrier, date before the minimum
\* (the minimum itself passes), no plan for carrier and package size
C5_ValidationOrder ==
    [][\A p \in Procs :
          (call[p].pc = "validate" /\ call'[p].pc # "validate") =>
              LET req == call[p].req
                  d == FromIsoformat(req.date)
                  c == Normalize(req.carrier)
                  s == Normalize(req.package_size)
                  known == \E i \in DOMAIN carrier_statuses :
                              carrier_statuses[i].carrier = c
                  enabled == \E i \in DOMAIN carrier_statuses :
                                /\ carrier_statuses[i].carrier = c
                                /\ carrier_statuses[i].enabled
                  planned == \E i \in DOMAIN ShippingPlans :
                                /\ ShippingPlans[i].carrier = c
                                /\ ShippingPlans[i].package_size = s
                  e == call'[p].err
              IN /\ IsNone(d) => e = "InvalidTransactionRequest"
                 /\ (~IsNone(d) /\ ~known) => e = "CarrierDoesNotExist"
                 /\ (~IsNone(d) /\ known /\ ~enabled) => e = "CarrierDisabled"
                 /\ (~IsNone(d) /\ enabled /\ Val(d) < MinDate) =>
                        e = "InvalidTransactionDate"
                 /\ (~IsNone(d) /\ enabled /\ Val(d) = MinDate) =>
                        e # "InvalidTransactionDate"
                 /\ (~IsNone(d) /\ enabled /\ Val(d) >= MinDate /\ ~planned) =>
                        e = "InvalidTransactionRequest"
                 /\ e = "" <=> call'[p].pc = "rules"]_vars

\* a disabled carrier, a date before the minimum and a size it has no plan for
C5_Witness ==
    \E p \in Procs :
        /\ call[p].pc = "done"
        /\ call[p].err = "CarrierDisabled"
        /\ call[p].req.date = <<2009, 12, 31>>
        /\ call[p].req.carrier = "A"
        /\ call[p].req.package_size = "L"

\* C6: an executor returns a discount only when each of its eligibility tasks
\* reported eligible; with every task eligible (none bound included) it goes
\* on to the size rule; with a task ineligible and none raising it returns
\* no discount without the size rule, whatever the completion order
C6_EligibilityConjunction ==
    \A p \in Procs : \A e \in DOMAIN call[p].ex :
        LET x == call[p].ex[e]
            bound == IF IsNone(call[p].rules[e].eligibility_rules) THEN 0
                     ELSE Len(Val(call[p].rules[e].eligibility_rules))
        IN /\ ~IsNone(x.result) =>
                 /\ Len(x.tasks) = bound
                 /\ \A i \in DOMAIN x.tasks : x.tasks[i] = "true"
           /\ (x.st = "done" /\ \A i \in DOMAIN x.tasks : x.tasks[i] = "true") =>
                 x.size_calls = 1
           /\ (/\ \E i \in DOMAIN x.tasks : x.tasks[i] = "false"
               /\ \A i \in DOMAIN x.tasks : x.tasks[i] # "raised") =>
                 /\ x.st \in {"done", "cancelled"}
                 /\ x.size_calls = 0
                 /\ IsNone(x.result)

C6_Witness ==
    \E p \in Procs : \E e \in DOMAIN call[p].ex :
        /\ call[p].ex[e].tasks = <<"true", "true">>
        /\ ~IsNone(call[p].ex[e].result)

\* C7: with an eligibility task that evaluated false, the executor never
\* invokes its size rule or its correction rule and returns no discount
C7_ShortCircuit ==
    \A p \in Procs : \A e \in DOMAIN call[p].ex :
        LET x == call[p].ex[e]
        IN (\E i \in DOMAIN x.tasks : x.tasks[i] = "false") =>
              /\ x.size_calls = 0
              /\ x.correct_calls = 0
              /\ x.st = "done"
              /\ IsNone(x.result)

\* C8: an executor whose size rule or correction rule returned a negative
\* amount returns no discount without failing, and a call in which no rule
\* raised and the lock stayed owned at reacquire saves, commits and answers
C8_NegativeIsNoDiscount ==
    \A p \in Procs :
        LET negative(x) ==
                \/ ~IsNone(x.raw) /\ Val(x.raw) < 0
                \/ x.correct_calls = 1 /\ ~IsNone(x.corrected) /\ Val(x.corrected) < 0
        IN /\ \A e \in DOMAIN call[p].ex :
                 negative(call[p].ex[e]) =>
                    /\ call[p].ex[e].st = "done"
                    /\ IsNone(call[p].ex[e].result)
           /\ (/\ call[p].pc = "done"
               /\ \E e \in DOMAIN call[p].ex : negative(call[p].ex[e])
               /\ \A e \in DOMAIN call[p].ex : call[p].ex[e].st = "done"
               /\ ~Logged(p, "reacquire_not_owned")) =>
                 /\ call[p].err = ""
                 /\ ~IsNone(call[p].resp)
                 /\ Logged(p, "save") /\ Logged(p, "commit")

\* a negative size next to another rule's discount, which is saved
C8_Witness ==
    \E p \in Procs :
        /\ call[p].pc = "done" /\ ~IsNone(call[p].resp)
        /\ Len(call[p].ex) = 2
        /\ call[p].ex[1].raw = Some(0 - 1)
        /\ call[p].sel = Some([discount_id |-> 2, discount |-> 2])
        /\ \E i \in DOMAIN transactions : transactions[i].discount_id = Some(2)

\* C9: an executor whose size rule returned exactly zero returns no discount,
\* with or without a correction rule
C9_ZeroIsNoDiscount ==
    \A p \in Procs : \A e \in DOMAIN call[p].ex :
        LET x == call[p].ex[e]
        IN (x.raw = Some(0) /\ x.st = "done") => IsNone(x.result)

\* C10: an executor that returned after a positive raw discount returns the
\* raw amount when no correction rule is bound; with one bound, the rule was
\* invoked once with the raw amount, and a positive corrected amount is the
\* result
C10_PositiveRawDiscount ==
    \A p \in Procs : \A e \in DOMAIN call[p].ex :
        LET x == call[p].ex[e]
            rule == call[p].rules[e]
        IN (x.st = "done" /\ ~IsNone(x.raw) /\ Val(x.raw) > 0) =>
              IF IsNone(rule.size_correction_rule)
              THEN x.result = x.raw /\ x.correct_calls = 0
              ELSE /\ x.correct_calls = 1
                   /\ x.arg = x.raw
                   /\ (~IsNone(x.corrected) /\ Val(x.corrected) > 0) =>
                         x.result = x.corrected

C10_Witness ==
    \E p \in Procs : \E e \in DOMAIN call[p].ex :
        /\ call[p].ex[e].st = "done"
        /\ call[p].ex[e].raw = Some(2)
        /\ call[p].ex[e].correct_calls = 1
        /\ call[p].ex[e].corrected = Some(1)
        /\ call[p].ex[e].result = Some(1)

\* C11: the executors built for a call carry, position by position, exactly
\* the eligibility rules and the correction rule their own definition
\* declares: none bound where the definition declares none
C11_OwnVariants ==
    \A p \in Procs : \A e \in DOMAIN call[p].rules :
        /\ call[p].rules[e].discount_id = rule_set[e].discount_id
        /\ call[p].rules[e].eligibility_rules = rule_set[e].eligibility_rules
        /\ call[p].rules[e].size_correction_rule =
              rule_set[e].size_correction_rule

\* C12: with an active definition naming a variant that is not registered,
\* or giving one parameters its constructor rejects, no call ever reaches
\* the lock, the unit of work, an executor or save, nothing is persisted, and
\* a call that got past validation ends with the resolution error
C12_Unresolvable ==
    LET subrules(d) ==
            (IF IsNone(d.eligibility_rules) THEN {}
             ELSE {<<"e", r>> : r \in Range(Val(d.eligibility_rules))})
            \cup (IF IsNone(d.size_correction_rule) THEN {}
                  ELSE {<<"c", Val(d.size_correction_rule)>>})
            \cup {<<"s", d.size_rule>>}
        registry(k) == IF k = "e" THEN EligibilityRuleNames
                       ELSE IF k = "c" THEN CorrectionRuleNames
                       ELSE SizeRuleNames
        broken == \E i \in DOMAIN rule_set : \E b \in subrules(rule_set[i]) :
                     \/ b[2].name \notin registry(b[1])
                     \/ b[2].name = "basic_monthly_discount_size_limiter"
                        /\ b[2].size <= 0
    IN broken =>
          /\ transactions = <<>>
          /\ lock_owner = 0
          /\ \A p \in Procs :
                /\ call[p].log = <<>>
                /\ call[p].rules = <<>>
                /\ call[p].ex = <<>>
                /\ IsNone(call[p].resp)
                /\ call[p].pc \in {"idle", "validate", "rules", "done"}
                /\ (call[p].pc = "done" /\ ~IsNone(call[p].txn)) =>
                      call[p].err \in {"KeyError", "ValidationError"}

\* an accepted request whose call failed on the unknown name of the second
\* definition, the first one being resolvable
C12_Witness ==
    \E p \in Procs :
        /\ rule_set = RuleSetUnknown
        /\ call[p].pc = "done"
        /\ ~IsNone(call[p].txn)
        /\ call[p].err = "KeyError"
        /\ call[p].log = <<>>

\* C13: once the evaluation of an executor of a call failed, the call never
\* selects a discount, never calls save, never commits and never answers;
\* it leaves the unit of work through abort and raises the failure
C13_FanOutAllOrNothing ==
    \A p \in Procs :
        (\E e \in DOMAIN call[p].ex : call[p].ex[e].st = "failed") =>
            /\ IsNone(call[p].sel)
            /\ ~Logged(p, "save")
            /\ ~Logged(p, "commit")
            /\ ~Logged(p, "reacquire")
            /\ IsNone(call[p].resp)
            /\ call[p].pc \in {"eval", "abort", "release", "done"}
            /\ call[p].pc \in {"release", "done"} => Logged(p, "abort")
            /\ call[p].pc # "eval" => call[p].err = "ExceptionGroup"

\* an executor returned 2, the other one failed, and the call raised
C13_Witness ==
    \E p \in Procs :
        /\ call[p].pc = "done"
        /\ Len(call[p].ex) = 2
        /\ call[p].ex[1].result = Some(2)
        /\ call[p].ex[2].st = "failed"
        /\ call[p].err = "ExceptionGroup"
        /\ Logged(p, "abort")

\* C14: a call that began its unit of work invokes commit and abort at most
\* once together, and exactly one of them by the time it leaves the unit of
\* work: commit iff no executor failed, save was called and reacquire
\* returned; abort iff an executor failed or reacquire raised; a call that
\* did not begin a unit of work invokes neither
C14_CommitXorAbort ==
    \A p \in Procs :
        LET log == call[p].log
            times(ev) == Cardinality({i \in DOMAIN log : log[i] = ev})
            left == call[p].pc \in {"release", "done"}
            failed == \E e \in DOMAIN call[p].ex : call[p].ex[e].st = "failed"
        IN /\ times("begin") <= 1
           /\ times("commit") + times("abort") <= times("begin")
           /\ (Logged(p, "begin") /\ left) =>
                 times("commit") + times("abort") = 1
           /\ Logged(p, "commit") <=>
                 /\ Logged(p, "begin") /\ left
                 /\ ~failed
                 /\ Logged(p, "save")
                 /\ Logged(p, "reacquire")
           /\ Logged(p, "abort") <=>
                 /\ Logged(p, "begin") /\ left
                 /\ failed \/ Logged(p, "reacquire_not_owned")

\* a call that went through every step of the success path
C14_Witness ==
    \E p \in Procs :
        /\ call[p].pc = "done"
        /\ call[p].log =
              <<"acquire", "begin", "save", "reacquire", "commit", "release">>

\* C15: the release of a call that is on its error path, the lock being no
\* longer owned, ends the call with the very error it carried into the
\* release and with no response; after a failed executor that error is the
\* exception group of the evaluation
C15_ReleaseKeepsError ==
    [][\A p \in Procs :
          (/\ call[p].pc = "release"
           /\ call[p].err # ""
           /\ lock_owner # p
           /\ call'[p].pc # "release") =>
              /\ call'[p].pc = "done"
              /\ call'[p].err = call[p].err
              /\ ((\E e \in DOMAIN call[p].ex : call[p].ex[e].st = "failed")
                    => call'[p].err = "ExceptionGroup")
              /\ Logged(p, "abort")
              /\ IsNone(call'[p].resp)
              /\ call'[p].log = Append(call[p].log, "release_not_owned")]_vars

\* an executor failed, the lease ran out, and the call raised the failure
C15_Witness ==
    \E p \in Procs :
        /\ call[p].pc = "done"
        /\ Logged(p, "release_not_owned")
        /\ \E e \in DOMAIN call[p].ex : call[p].ex[e].st = "failed"
        /\ call[p].err = "ExceptionGroup"

\* C16: the discount selected for a call is the one of the earliest
\* executor, in rule-set order, among those that returned the largest
\* amount, in whatever order the evaluation tasks returned
C16_EarliestWinsTie ==
    \A p \in Procs :
        (Logged(p, "save") /\ Returned(p) # {}) =>
            LET ex == call[p].ex
                top == CHOOSE a \in Returned(p) : \A b \in Returned(p) : b <= a
                winners == {e \in DOMAIN ex : ex[e].result = Some(top)}
                first == CHOOSE e \in winners : \A f \in winners : e <= f
            IN call[p].sel = Some([discount_id |-> rule_set[first].discount_id,
                                   discount |-> top])

\* both executors returned 2, the second one before the first one, and the
\* discount of the first one was saved
C16_Witness ==
    \E p \in Procs :
        /\ call[p].pc = "done" /\ ~IsNone(call[p].resp)
        /\ Len(call[p].ex) = 2
        /\ call[p].ex[1].result = Some(2) /\ call[p].ex[1].fin = 2
        /\ call[p].ex[2].result = Some(2) /\ call[p].ex[2].fin = 1
        /\ Val(call[p].sel).discount_id = rule_set[1].discount_id
        /\ transactions[Len(transactions)].discount_id =
              Some(rule_set[1].discount_id)

\* C17: a call calls save at most once and the history never holds more
\* records than calls were made; a call that returned called save once and
\* committed, and the record it saved is the last one; a call that raised
\* did not commit; every record has a discount_id iff it has a discount, and
\* the record of a call carries the id of an executor that returned the
\* amount it carries
C17_OneRecordPerSuccess ==
    /\ Len(transactions) <= ncalls
    /\ \A i \in DOMAIN transactions :
          IsNone(transactions[i].discount_id) <=> IsNone(transactions[i].discount)
    /\ \A p \in Procs :
          LET log == call[p].log
              saves == Cardinality({i \in DOMAIN log : log[i] = "save"})
              last == transactions[Len(transactions)]
          IN /\ saves <= 1
             /\ (call[p].pc = "done" /\ call[p].err # "") => ~Logged(p, "commit")
             /\ (call[p].pc = "done" /\ call[p].err = "") =>
                   /\ saves = 1
                   /\ Logged(p, "commit")
             /\ Logged(p, "save") =>
                   /\ last.date = Val(call[p].txn).date
                   /\ last.carrier = Val(call[p].txn).carrier
                   /\ last.package_size = Val(call[p].txn).package_size
                   /\ last.discount = Applied(p)
                   /\ ~IsNone(last.discount) =>
                         \E e \in DOMAIN call[p].ex :
                            /\ last.discount_id = Some(rule_set[e].discount_id)
                            /\ call[p].ex[e].result = last.discount

\* the second call of a run returned with the discount of the second
\* executor, the first executor having returned none
C17_Witness ==
    \E p \in Procs :
        /\ ncalls = 2 /\ Len(transactions) = 2
        /\ call[p].pc = "done" /\ ~IsNone(call[p].resp)
        /\ Len(call[p].ex) = 2
        /\ IsNone(call[p].ex[1].result)
        /\ call[p].ex[2].result = Some(1)
        /\ transactions[2].discount_id = Some(2)
        /\ transactions[2].discount = Some(1)

\* C18: the response of a call is the price of the shipping plan of the
\* transaction's carrier and package size, less the applied discount when
\* there is one, together with that discount, which is the discount of the
\* record the call saved
C18_Response ==
    \A p \in Procs :
        ~IsNone(call[p].resp) =>
            LET resp == Val(call[p].resp)
                txn == Val(call[p].txn)
                saved == transactions[Len(transactions)]
            IN \E i \in DOMAIN ShippingPlans :
                  /\ ShippingPlans[i].carrier = txn.carrier
                  /\ ShippingPlans[i].package_size = txn.package_size
                  /\ IF IsNone(resp.applied_discount)
                     THEN resp.reduced_price = ShippingPlans[i].price
                     ELSE resp.reduced_price =
                             ShippingPlans[i].price - Val(resp.applied_discount)
                  /\ resp.applied_discount = Applied(p)
                  /\ saved.discount = resp.applied_discount
                  /\ saved.carrier = txn.carrier
                  /\ saved.package_size = txn.package_size

\* carrier B, size L, price 4, discount 1: the response is 3 with discount 1
C18_Witness ==
    \E p \in Procs :
        /\ call[p].pc = "done"
        /\ call[p].req.carrier = "b" /\ call[p].req.package_size = "L"
        /\ call[p].resp = Some([reduced_price |-> 3, applied_discount |-> Some(1)])
        /\ transactions[Len(transactions)].discount = Some(1)

\* the sum of the discounts of the records of a history dated in a month
\* (year * 100 + month)
RECURSIVE SumInMonth(_, _)
SumInMonth(hist, month) ==
    IF hist = <<>> THEN 0
    ELSE SumInMonth(Tail(hist), month)
         + (IF Head(hist).date \div 100 = month /\ ~IsNone(Head(hist).discount)
            THEN Val(Head(hist).discount) ELSE 0)

Min(a, b) == IF a <= b THEN a ELSE b

\* C19: the monthly limiter, called with a raw discount d >= 0, returns
\* min(d, max(0, C - accumulated)), accumulated being the sum of the
\* discounts of the records dated in the year and month of the transaction:
\* d itself when d + accumulated <= C, max(0, C - accumulated) otherwise
C19_LimiterFormula ==
    \A p \in Procs : \A e \in DOMAIN call[p].ex :
        LET x == call[p].ex[e]
            rule == call[p].rules[e].size_correction_rule
        IN (/\ x.correct_calls = 1
            /\ x.st = "done"
            /\ Val(rule).name = "basic_monthly_discount_size_limiter") =>
              LET d == Val(x.arg)
                  C == Val(rule).size
                  acc == SumInMonth(transactions,
                                         Val(call[p].txn).date \div 100)
                  left == IF C - acc > 0 THEN C - acc ELSE 0
              IN /\ d >= 0
                 /\ x.corrected = Some(Min(d, left))
                 /\ d + acc <= C => x.corrected = Some(d)
                 /\ d + acc > C => x.corrected = Some(left)

\* 29 February 2024, cap 3, raw discount 3: a record of 1 February with 1 and
\* a record of 29 February with 1 count, so 1 is left
C19_Witness ==
    /\ Len(transactions) = 2
    /\ transactions[1].date = 20240201 /\ transactions[1].discount = Some(1)
    /\ transactions[2].date = 20240229 /\ transactions[2].discount = Some(1)
    /\ Val(call[1].txn).date = 20240229
    /\ rule_set = RuleSetLimiter(3)
    /\ call[1].ex[1].arg = Some(3)
    /\ call[1].ex[1].correct_calls = 1
    /\ call[1].ex[1].corrected = Some(1)

\* C20: with a limiter on every rule and C the largest of their caps, the
\* discounts of the records of any one month never add up to more than C;
\* and each limiter of a call that saved returned the raw discount cut to
\* what the records of the transaction's own month, those of other months
\* left aside, had left of its cap, so that a call in a month without a
\* discount yet applies min(price, C)
C20_MonthlyCap ==
    LET caps == {Val(rule_set[i].size_correction_rule).size : i \in DOMAIN rule_set}
        C == CHOOSE c \in caps : \A d \in caps : d <= c
        months == {transactions[i].date \div 100 : i \in DOMAIN transactions}
    IN /\ \A i \in DOMAIN rule_set : ~IsNone(rule_set[i].size_correction_rule)
       /\ \A m \in months : SumInMonth(transactions, m) <= C
       /\ \A p \in Procs :
             Logged(p, "save") =>
                LET before == SubSeq(transactions, 1, Len(transactions) - 1)
                    acc == SumInMonth(before, Val(call[p].txn).date \div 100)
                IN /\ \A e \in DOMAIN call[p].ex :
                         LET cap == Val(rule_set[e].size_correction_rule).size
                             left == IF cap - acc > 0 THEN cap - acc ELSE 0
                         IN call[p].ex[e].corrected =
                               Some(Min(Val(call[p].ex[e].arg), left))
                   /\ acc = 0 => Applied(p) = Some(Min(call[p].price, C))

\* January used up its cap of 3 with the first transaction, the second got
\* nothing, and the transaction of 1 February got the full cap again
C20_Witness ==
    /\ rule_set = RuleSetCapped(3, 1)
    /\ Len(transactions) = 3
    /\ transactions[1].date = 20100131 /\ transactions[1].discount = Some(3)
    /\ transactions[2].date = 20100131 /\ IsNone(transactions[2].discount)
    /\ transactions[3].date = 20100201 /\ transactions[3].discount = Some(3)
    /\ call[1].pc = "done" /\ ~IsNone(call[1].resp)

\* the history a call read while it evaluated its rules: the records
\* stored before its own
HistoryBefore(p) ==
    IF Logged(p, "save") THEN SubSeq(transactions, 1, Len(transactions) - 1)
    ELSE transactions

\* x has the value of every field named in the filter f
Matches(x, f) ==
    \A i \in DOMAIN f :
        \/ f[i][1] = "carrier" /\ x.carrier = f[i][2]
        \/ f[i][1] = "package_size" /\ x.package_size = f[i][2]

\* C21: under one rule guarded by an every-Nth rule with filter F alone, a
\* transaction is eligible iff it matches F and k mod n = 0, k being one more
\* than the number of stored records matching F, discounted or not; a
\* record that does not match F is not counted; and the record saved carries
\* a discount iff the transaction was eligible
C21_EveryNth ==
    LET guard == Val(rule_set[1].eligibility_rules)[1]
    IN guard.name = "rule_every_nth_transaction" =>
          \A p \in Procs :
             (/\ call[p].ex # <<>>
              /\ call[p].ex[1].tasks # <<>>
              /\ call[p].ex[1].tasks[1] # "run") =>
                LET txn == Val(call[p].txn)
                    hist == HistoryBefore(p)
                    k == 1 + Cardinality({i \in DOMAIN hist :
                                            Matches(hist[i], guard.attrs)})
                    eligible == Matches(txn, guard.attrs) /\ k % guard.n = 0
                IN /\ call[p].ex[1].tasks[1] = IF eligible THEN "true" ELSE "false"
                   /\ Logged(p, "save") =>
                         (~IsNone(transactions[Len(transactions)].discount)
                            <=> eligible)

\* every second transaction of carrier A: of A, B, A, A the third is
\* discounted, the transaction of B neither counted nor discounted
C21_Witness ==
    /\ rule_set = RuleSetGuarded(EveryNth(2, FilterCarrierA))
    /\ Len(transactions) = 4
    /\ transactions[1].carrier = "A" /\ IsNone(transactions[1].discount)
    /\ transactions[2].carrier = "B" /\ IsNone(transactions[2].discount)
    /\ transactions[3].carrier = "A" /\ ~IsNone(transactions[3].discount)
    /\ transactions[4].carrier = "A" /\ IsNone(transactions[4].discount)
    /\ call[1].pc = "done"

\* C22: under one rule guarded by a max-N rule on its own discount_id alone,
\* a transaction is eligible iff fewer than N stored records of its year and
\* month carry that discount_id; no month has more than N records with it;
\* and the record saved carries the discount iff the transaction was
\* eligible, whatever other months hold
C22_MaxNPerMonth ==
    LET guard == Val(rule_set[1].eligibility_rules)[1]
        id == rule_set[1].discount_id
        used(hist, month) ==
            Cardinality({i \in DOMAIN hist :
                           /\ hist[i].date \div 100 = month
                           /\ hist[i].discount_id = Some(id)})
    IN guard.name = "rule_max_n_times_in_calendar_month" =>
          /\ guard.discount_id = id
          /\ \A i \in DOMAIN transactions :
                used(transactions, transactions[i].date \div 100) <= guard.n
          /\ \A p \in Procs :
                (/\ call[p].ex # <<>>
                 /\ call[p].ex[1].tasks # <<>>
                 /\ call[p].ex[1].tasks[1] # "run") =>
                   LET month == Val(call[p].txn).date \div 100
                       eligible == used(HistoryBefore(p), month) < guard.n
                   IN /\ call[p].ex[1].tasks[1] =
                            IF eligible THEN "true" ELSE "false"
                      /\ Logged(p, "save") =>
                            (transactions[Len(transactions)].discount_id = Some(id)
                               <=> eligible)

\* once a month: 31 January discounted, 31 January again not, 1 February
\* discounted, 1 February again not
C22_Witness ==
    /\ rule_set = RuleSetGuarded(MaxNTimes(1, 1))
    /\ Len(transactions) = 4
    /\ transactions[1].date = 20100131 /\ transactions[1].discount_id = Some(1)
    /\ transactions[2].date = 20100131 /\ IsNone(transactions[2].discount_id)
    /\ transactions[3].date = 20100201 /\ transactions[3].discount_id = Some(1)
    /\ transactions[4].date = 20100201 /\ IsNone(transactions[4].discount_id)
    /\ call[1].pc = "done"

\* C23: under one rule guarded by an attributes-equal rule alone, the rule
\* reports eligible iff the transaction has the configured value in every
\* configured field, and the record saved carries the discount iff it does
C23_AttributesEqual ==
    LET guard == Val(rule_set[1].eligibility_rules)[1]
    IN guard.name = "rule_transaction_attributes" =>
          \A p \in Procs :
             (/\ call[p].ex # <<>>
              /\ call[p].ex[1].tasks # <<>>
              /\ call[p].ex[1].tasks[1] # "run") =>
                LET eligible == Matches(Val(call[p].txn), guard.attrs)
                IN /\ call[p].ex[1].tasks[1] = IF eligible THEN "true" ELSE "false"
                   /\ Logged(p, "save") =>
                         (~IsNone(transactions[Len(transactions)].discount)
                            <=> eligible)

\* C24: under the one rule that matches the price to the lowest one among
\* the plans of a package size, the response to a transaction of that size
\* has as reduced price the lowest price among the plans of that size the
\* call read (those of the enabled carriers), with the difference as the
\* discount, and no discount when the price is that lowest price already
C24_MatchLowest ==
    LET rule == rule_set[1].size_rule
    IN rule.name = "rule_match_price_to_lowest_among_shipping_plans" =>
          \A p \in Procs :
             (/\ ~IsNone(call[p].resp)
              /\ Val(call[p].txn).package_size = rule.attrs[1][2]) =>
                LET c == call[p]
                    prices == {c.plans[i].price :
                                 i \in {j \in DOMAIN c.plans :
                                          c.plans[j].package_size = rule.attrs[1][2]}}
                    lowest == CHOOSE a \in prices : \A b \in prices : a <= b
                    resp == Val(c.resp)
                IN /\ \A i \in DOMAIN c.plans :
                         \E j \in DOMAIN ShippingPlans : c.plans[i] = ShippingPlans[j]
                   /\ resp.reduced_price = lowest
                   /\ c.price = lowest => IsNone(resp.applied_discount)
                   /\ c.price > lowest =>
                         resp.applied_discount = Some(c.price - lowest)

\* carrier A, size S: matched to the 2 of carrier B first, and, carrier B
\* disabled since, left at its own 3 without a discount
C24_Witness ==
    /\ rule_set = RuleSetMatchLowest("S")
    /\ Len(transactions) = 2
    /\ transactions[1].carrier = "A" /\ transactions[1].discount = Some(1)
    /\ transactions[2].carrier = "A" /\ IsNone(transactions[2].discount)
    /\ is_enabled(carrier_statuses, "B") = Some(FALSE)
    /\ call[1].pc = "done"
    /\ call[1].resp = Some([reduced_price |-> 3, applied_discount |-> None])

\* the rules that read the transaction history
ReadsHistory(rule) ==
    rule.name \in {"rule_max_n_times_in_calendar_month",
                   "rule_every_nth_transaction",
                   "basic_monthly_discount_size_limiter"}

\* the call of q has read the history and has not committed yet
InWindow(q) ==
    /\ call[q].pc \in {"eval", "reacquire", "commit"}
    /\ \/ Logged(q, "save")
       \/ \E e \in DOMAIN call[q].ex :
             \/ call[q].ex[e].correct_calls > 0
             \/ \E i \in DOMAIN call[q].ex[e].tasks :
                   /\ ReadsHistory(Val(call[q].rules[e].eligibility_rules)[i])
                   /\ call[q].ex[e].tasks[i] \in {"true", "false", "raised"}

\* C25: with a lock that is held until released, no processor completes a
\* history read (a count or a discount sum) or a save while the call of
\* another processor is between its first history read and its commit
C25_Serialized ==
    [][\A p \in Procs : \A q \in Procs \ {p} :
          InWindow(q) =>
             /\ Len(call'[p].log) > Len(call[p].log) =>
                   call'[p].log[Len(call'[p].log)] # "save"
             /\ \A e \in DOMAIN call[p].ex :
                   /\ e \in DOMAIN call'[p].ex =>
                         call'[p].ex[e].correct_calls = call[p].ex[e].correct_calls
                   /\ \A i \in DOMAIN call[p].ex[e].tasks :
                         (/\ ReadsHistory(Val(call[p].rules[e].eligibility_rules)[i])
                          /\ call[p].ex[e].tasks[i] = "run"
                          /\ e \in DOMAIN call'[p].ex
                          /\ i \in DOMAIN call'[p].ex[e].tasks) =>
                            call'[p].ex[e].tasks[i] \in {"run", "cancelled"}]_vars

\* C26: the lock, unit-of-work and save calls of a call that has not failed
\* are the first calls of acquire, begin, save, reacquire, commit, release,
\* in this order, and all six once it has returned; save is called only
\* when every executor has returned; and no executor of the call, hence no
\* history read, exists before acquire and begin were called
C26_StepOrder ==
    \A p \in Procs :
        LET log == call[p].log
            steps == <<"acquire", "begin", "save", "reacquire", "commit">>
            IsPrefix(a, b) == Len(a) <= Len(b) /\ a = SubSeq(b, 1, Len(a))
        IN /\ call[p].err = "" =>
                 \/ IsPrefix(log, Append(steps, "release"))
                 \/ log = Append(steps, "release_not_owned")
           /\ ~IsNone(call[p].resp) =>
                 log \in {Append(steps, "release"),
                          Append(steps, "release_not_owned")}
           /\ Logged(p, "save") =>
                 \A e \in DOMAIN call[p].ex : call[p].ex[e].st = "done"
           /\ call[p].ex # <<>> => IsPrefix(<<"acquire", "begin">>, log)
           /\ (\E e \in DOMAIN call[p].ex : call[p].ex[e].st # "new") =>
                 IsPrefix(<<"acquire", "begin">>, log)

\* both executors of a call returned a discount and the call went through
\* the six steps
C26_Witness ==
    \E p \in Procs :
        /\ call[p].pc = "done" /\ ~IsNone(call[p].resp)
        /\ Len(call[p].ex) = 2
        /\ \A e \in DOMAIN call[p].ex : ~IsNone(call[p].ex[e].result)
        /\ call[p].log =
              <<"acquire", "begin", "save", "reacquire", "commit", "release">>

\* C27: a class statement whose rule name is already registered in its rule
\* system raises ValueError and leaves the registries as they were, and no
\* step changes the class a registered name maps to
C27_FirstRegistrationKept ==
    [][/\ \A k \in RuleSystems : \A n \in DOMAIN rule_registry[k] :
             /\ n \in DOMAIN rule_registry'[k]
             /\ rule_registry'[k][n] = rule_registry[k][n]
       /\ (/\ class_stmt' # class_stmt \/ rule_registry' # rule_registry
           /\ ~IsNone(class_stmt'.rule_name)
           /\ Val(class_stmt'.rule_name)
                 \in DOMAIN rule_registry[class_stmt'.system]) =>
             /\ class_stmt'.err = "ValueError"
             /\ rule_registry' = rule_registry]_vars

\* a second class was declared under a name an earlier class statement had
\* registered, and the name still maps to the earlier class
C27_Witness ==
    /\ class_stmt.err = "ValueError"
    /\ class_stmt.rule_name = Some("rule_a")
    /\ rule_registry[class_stmt.system]["rule_a"] # class_stmt.cls

\* C28: the construction of an executor raises ValueError and yields no
\* executor when the size rule has no calculate_discount method, when an
\* eligibility rule has no eligible method, or when the correction rule has
\* no correct method or its correct method has no discount argument;
\* otherwise it yields an executor holding the rules it was given
C28_ConstructionChecked ==
    LET size == executor.size_rule
        elig == executor.eligibility_rules
        corr == executor.size_correction_rule
        lacking ==
            \/ "calculate_discount" \notin size.methods
            \/ /\ ~IsNone(elig)
               /\ \E i \in DOMAIN Val(elig) :
                     "eligible" \notin Val(elig)[i].methods
            \/ /\ ~IsNone(corr)
               /\ \/ "correct" \notin Val(corr).methods
                  \/ "discount" \notin Val(corr).correct_args
    IN size # NoClass =>
          IF lacking
          THEN executor.err = "ValueError" /\ IsNone(executor.obj)
          ELSE /\ executor.err = ""
               /\ executor.obj =
                     Some([size_rule |-> size, eligibility_rules |-> elig,
                           size_correction_rule |-> corr])

\* a construction refused only because the correct method of the correction
\* rule takes no discount
C28_Witness ==
    /\ executor.err = "ValueError"
    /\ "calculate_discount" \in executor.size_rule.methods
    /\ ~IsNone(executor.eligibility_rules)
    /\ Len(Val(executor.eligibility_rules)) = 2
    /\ \A i \in 1..2 :
          "eligible" \in Val(executor.eligibility_rules)[i].methods
    /\ ~IsNone(executor.size_correction_rule)
    /\ "correct" \in Val(executor.size_correction_rule).methods
    /\ "discount" \notin Val(executor.size_correction_rule).correct_args

Enabled(statuses, c) ==
    \E j \in DOMAIN statuses : statuses[j].carrier = c /\ statuses[j].enabled

Disabled(statuses, c) ==
    \E j \in DOMAIN statuses : statuses[j].carrier = c /\ ~statuses[j].enabled

\* C29: in every state get_shipping_plans returns the plans of the enabled
\* carriers, each once, and no others; a call validated while its carrier is
\* disabled fails with CarrierDisabled and saves nothing, and a call
\* validated while its carrier is enabled does not fail with CarrierDisabled
\* and is accepted when it names a plan among those it read
C29_EnableStatus ==
    [][/\ LET plans == get_shipping_plans(carrier_statuses')
          IN /\ \A i \in DOMAIN ShippingPlans :
                   ShippingPlans[i] \in Range(plans) <=>
                      Enabled(carrier_statuses', ShippingPlans[i].carrier)
             /\ Len(plans) =
                   Cardinality({i \in DOMAIN ShippingPlans :
                      Enabled(carrier_statuses', ShippingPlans[i].carrier)})
       /\ \A p \in Procs :
             (call[p].pc = "validate" /\ call'[p].pc # "validate") =>
                LET c == Normalize(call[p].req.carrier)
                    s == Normalize(call[p].req.package_size)
                IN /\ Disabled(carrier_statuses, c) =>
                         /\ call'[p].pc = "done"
                         /\ call'[p].err = "CarrierDisabled"
                         /\ transactions' = transactions
                   /\ Enabled(carrier_statuses, c) =>
                         /\ call'[p].err # "CarrierDisabled"
                         /\ (\E i \in DOMAIN call[p].plans :
                                /\ call[p].plans[i].carrier = c
                                /\ call[p].plans[i].package_size = s) =>
                               call'[p].err = ""]_vars

\* after two set_enabled operations that succeeded and left every carrier
\* enabled (one disabled and enabled again), a later call for carrier B
\* returned a response and its transaction is saved
C29_Witness ==
    /\ nset = 2 /\ set_error = ""
    /\ carrier_statuses = CarrierStatuses
    /\ ncalls >= 2
    /\ call[1].pc = "done" /\ ~IsNone(call[1].resp)
    /\ Normalize(call[1].req.carrier) = "B"
    /\ Len(transactions) = 1

\* C30: set_enabled for a carrier without a status fails with
\* CarrierDoesNotExist whatever the flag and leaves every status as it was;
\* for a carrier with a status it does not fail, sets that carrier's status
\* to the flag and leaves every other status as it was
C30_SetEnabled ==
    [][\A c \in {"A", "B", "Z"}, en \in BOOLEAN :
          DoSetEnabled(c, en) =>
             IF \A j \in DOMAIN carrier_statuses :
                   carrier_statuses[j].carrier # c
             THEN /\ set_error' = "CarrierDoesNotExist"
                  /\ carrier_statuses' = carrier_statuses
             ELSE /\ set_error' = ""
                  /\ DOMAIN carrier_statuses' = DOMAIN carrier_statuses
                  /\ \A j \in DOMAIN carrier_statuses :
                        /\ carrier_statuses'[j].carrier =
                              carrier_statuses[j].carrier
                        /\ carrier_statuses'[j].enabled =
                              IF carrier_statuses[j].carrier = c THEN en
                              ELSE carrier_statuses[j].enabled]_vars

\* one carrier was disabled, the other was not, and a set_enabled for an
\* unknown carrier then failed
C30_Witness ==
    /\ nset = 2
    /\ set_error = "CarrierDoesNotExist"
    /\ Disabled(carrier_statuses, "A")
    /\ Enabled(carrier_statuses, "B")

C32_Formatter ==
    LET f == amounts.fmt
        v == Val(f.value)
        clean == v.e >= -2 \/ v.c % Pow10(-2 - v.e) = 0
    IN f.called =>
          /\ IsNone(f.value) => f.err = "" /\ IsNone(f.result)
          /\ (~IsNone(f.value) /\ v.finite) =>
                /\ clean <=> f.err = ""
                /\ ~clean => f.err = "ValueError"
                /\ f.err = "" =>
                      /\ ~IsNone(f.result)
                      /\ Val(f.result).e = -2
                      /\ DecEq(Val(f.result), v)

\* C33: the step of a call that builds its executors builds them from the
\* rule set the provider returns at that step, one executor per definition
\* with the definition's id, size rule and declared eligibility and
\* correction rules, or fails without executors; a call that has not reached
\* that step holds no executor and no execution
C33_RebuiltEachCall ==
    [][\A p \in Procs :
          /\ call'[p].pc \in {"validate", "rules"} =>
                call'[p].rules = <<>> /\ call'[p].ex = <<>>
          /\ (call[p].pc = "rules" /\ call'[p].pc # "rules") =>
                IF GetRules(rule_set).ok
                THEN /\ call'[p].rules = GetRules(rule_set).rules
                     /\ Len(call'[p].rules) = Len(rule_set)
                     /\ \A i \in DOMAIN rule_set :
                           LET x == call'[p].rules[i]
                               d == rule_set[i]
                           IN /\ x.discount_id = d.discount_id
                              /\ x.size_rule = d.size_rule
                              /\ ~IsNone(d.eligibility_rules) =>
                                    x.eligibility_rules = d.eligibility_rules
                              /\ ~IsNone(d.size_correction_rule) =>
                                    x.size_correction_rule =
                                       d.size_correction_rule
                ELSE /\ call'[p].pc = "done"
                     /\ call'[p].err = GetRules(rule_set).err
                     /\ call'[p].rules = <<>>]_vars

\* the first call, for carrier B, got no discount from the reference rule
\* set; the second call, for carrier B again, got the full price from the
\* only definition of the rule set the provider returned afterwards
C33_Witness ==
    /\ ncalls = 2
    /\ Len(transactions) = 2
    /\ transactions[1].carrier = "B"
    /\ IsNone(transactions[1].discount)
    /\ rule_set = RuleSetGuarded(EveryNth(1, <<>>))
    /\ call[1].pc = "done" /\ ~IsNone(call[1].resp)
    /\ call[1].rules = GetRules(rule_set).rules
    /\ transactions[2].carrier = "B"
    /\ transactions[2].discount_id = Some(1)
    /\ transactions[2].discount = Some(call[1].price)

\* the positions of the release attempts and of the commit and abort
\* attempts in the log of a call
ReleaseAttempts(p) ==
    {i \in DOMAIN call[p].log :
        call[p].log[i] \in {"release", "release_not_owned"}}

UowAttempts(p) ==
    {i \in DOMAIN call[p].log :
        call[p].log[i] \in {"commit", "abort", "commit_raised",
                            "abort_raised"}}

\* C34 as stated: a call that acquired the lock and has returned or raised
\* made exactly one release attempt, as its last step, and a commit or an
\* abort of the unit of work was attempted before it
C34_ReleaseAfterUow ==
    \A p \in Procs :
        /\ Cardinality(ReleaseAttempts(p)) <= 1
        /\ ReleaseAttempts(p) \subseteq {Len(call[p].log)}
        /\ (call[p].pc = "done" /\ Logged(p, "acquire")) =>
              /\ Cardinality(ReleaseAttempts(p)) = 1
              /\ UowAttempts(p) # {}

\* C34 amended: a call that acquired the lock and has returned or raised
\* made exactly one release attempt, as its last step; when begin returned,
\* exactly one commit or abort attempt precedes it, and when begin raised,
\* none does
C34_ReleaseOnce ==
    \A p \in Procs :
        /\ Cardinality(ReleaseAttempts(p)) <= 1
        /\ ReleaseAttempts(p) \subseteq {Len(call[p].log)}
        /\ Cardinality(UowAttempts(p)) <= 1
        /\ UowAttempts(p) # {} => Logged(p, "begin")
        /\ (call[p].pc = "done" /\ Logged(p, "acquire")) =>
              /\ Cardinality(ReleaseAttempts(p)) = 1
              /\ Logged(p, "begin") <=> UowAttempts(p) # {}
              /\ Logged(p, "begin") \/ Logged(p, "begin_raised")

\* begin raised: the lock was released though nothing was committed or
\* aborted
C34_Witness ==
    \E p \in Procs :
        /\ call[p].pc = "done"
        /\ call[p].log = <<"acquire", "begin_raised", "release">>
        /\ call[p].err = "Exception"

C36_NoneInFlight ==
    \A p \in Procs :
        call[p].pc = "done" =>
            \A e \in DOMAIN call[p].ex :
                \A i \in DOMAIN call[p].ex[e].tasks :
                    call[p].ex[e].tasks[i] # "run"

\* the price of the shipping plan a saved transaction was priced with
PlanPrice(t) ==
    LET i == CHOOSE k \in DOMAIN ShippingPlans :
                 /\ ShippingPlans[k].carrier = t.carrier
                 /\ ShippingPlans[k].package_size = t.package_size
    IN ShippingPlans[i].price

\* C37: under rule sets of the reference variants every discount saved and
\* every discount returned is above zero and at most the price, and no
\* reduced price is below zero
C37_DiscountWithinPrice ==
    /\ \A i \in DOMAIN transactions :
          ~IsNone(transactions[i].discount) =>
              /\ 0 < Val(transactions[i].discount)
              /\ Val(transactions[i].discount) <= PlanPrice(transactions[i])
    /\ \A p \in Procs :
          ~IsNone(call[p].resp) =>
              LET resp == Val(call[p].resp)
              IN /\ resp.reduced_price >= 0
                 /\ ~IsNone(resp.applied_discount) =>
                       /\ 0 < Val(resp.applied_discount)
                       /\ Val(resp.applied_discount) <= call[p].price
                       /\ resp.reduced_price =
                             call[p].price - Val(resp.applied_discount)

\* under the reference rule set a first carrier A shipment was discounted by
\* its full price, and the limiter cut the discount of the second one down to
\* what was left of the cap
C37_Witness ==
    /\ rule_set = RuleSetReference
    /\ Len(transactions) = 2
    /\ transactions[1].carrier = "A"
    /\ transactions[1].discount = Some(PlanPrice(transactions[1]))
    /\ transactions[2].carrier = "A"
    /\ transactions[2].discount = Some(1)
    /\ \E p \in Procs :
          /\ call[p].pc = "done"
          /\ call[p].price = 3
          /\ call[p].resp = Some([reduced_price |-> 2, applied_discount |-> Some(1)])

\* the sum of the discounts of the calls that committed
CommittedSum ==
    LET f[S \in SUBSET Procs] ==
            IF S = {} THEN 0
            ELSE LET p == CHOOSE x \in S : TRUE
                 IN (IF Logged(p, "commit") /\ ~IsNone(call[p].sel)
                     THEN Val(call[p].sel).discount ELSE 0) + f[S \ {p}]
    IN f[Procs]

\* the sum of the committed discounts of the month stays within the cap
C38_CommittedWithinCap ==
    CommittedSum <= rule_set[1].size_correction_rule[1].size

\* C38: with two processors on a lock whose lease may run out at any moment
\* and one full-price rule under a limiter of cap C, the committed discounts
\* of the month sum to at most C, and a processor commits only while it
\* still owns the lock
C38_NoCommitWithoutLease ==
    [][/\ C38_CommittedWithinCap'
       /\ \A p \in Procs :
             (call[p].pc = "commit" /\ call'[p].pc = "release") =>
                 lock_owner = p]_vars

\* C39: with set_enabled interleaved, a transaction is saved only for a
\* carrier that is enabled at the save, and a call whose carrier is enabled
\* when its status is checked and has a plan of the requested size among the
\* configured ones does not fail with InvalidTransactionRequest
C39_ConsistentStatus ==
    [][/\ Len(transactions') > Len(transactions) =>
             Enabled(carrier_statuses,
                     transactions'[Len(transactions')].carrier)
       /\ \A p \in Procs :
             (call[p].pc = "validate" /\ call'[p].pc # "validate") =>
                LET c == Normalize(call[p].req.carrier)
                    s == Normalize(call[p].req.package_size)
                IN (/\ ~IsNone(FromIsoformat(call[p].req.date))
                    /\ Enabled(carrier_statuses, c)
                    /\ \E i \in DOMAIN ShippingPlans :
                          /\ ShippingPlans[i].carrier = c
                          /\ ShippingPlans[i].package_size = s) =>
                      call'[p].err # "InvalidTransactionRequest"]_vars

====
